------------------------------ MODULE WebPaths ------------------------------
(***************************************************************************)
(* The path and URL conversions of web_paths.py.                           *)
(*                                                                         *)
(* A text is the sequence of its parts between slashes: "./a//b.md" has    *)
(* the parts ".", "a", "" and "b.md".  A part is a stem, the number of     *)
(* times ".md" follows it, and whether blanks stand before it.  Blanks     *)
(* after a text are stripped by the same calls as those before it and are  *)
(* left out, as are backslashes.  What is missing is `Missing`.            *)
(*                                                                         *)
(* A stem may contain what ends the path of a URL: "?" or "#", or ";" in   *)
(* the last part.  BeforeMark and BeforeSemicolon are defined for these    *)
(* stems, and give the part that stands before the first such character.   *)
(*                                                                         *)
(* A conversion that may raise ValueError is the set of its results:       *)
(* empty, or with one element.                                             *)
(***************************************************************************)
EXTENDS Naturals, Sequences, Selection

CONSTANTS Stems,            \* names of files and directories, and the empty one
          BeforeMark,       \* what stands before the first "?" or "#"
          BeforeSemicolon   \* what stands before the first ";"

Parts == [stem: Stems, md: Nat, padded: BOOLEAN]

ASSUME StemsAssumption ==
    /\ {"", ".", "..", "index"} \subseteq Stems
    /\ \A before \in {BeforeMark, BeforeSemicolon} :
          /\ before \in [DOMAIN before -> Parts]
          /\ DOMAIN before \subseteq Stems \ {"", ".", "..", "index"}

Part(stem, md) == [stem |-> stem, md |-> md, padded |-> FALSE]

Empty   == Part("", 0)
Dot     == Part(".", 0)
DotDot  == Part("..", 0)
Index   == Part("index", 0)
Missing == << >>

Last(text) == text[Len(text)]

ReplaceLast(text, part) == [text EXCEPT ![Len(text)] = part]

StartsWithBlanks(text) == text # Missing /\ Head(text).padded

(* text.strip().                                                           *)
Unpadded(text) ==
    IF StartsWithBlanks(text) THEN [text EXCEPT ![1].padded = FALSE] ELSE text

(* path is not None and bool(path.strip()).                                *)
IsGiven(text) == Unpadded(text) \notin {Missing, <<Empty>>}

(* str(PurePosixPath(text)).                                               *)
Collapsed(text) ==
    LET kept == ItemsAt(text, {i \in DOMAIN text : text[i] \notin {Empty, Dot}})
    IN  IF kept = << >> THEN <<Dot>> ELSE kept

(* Neither empty nor absolute, and without "..".                           *)
StaysInside(text) ==
    /\ text # Missing
    /\ Head(text) # Empty
    /\ \A i \in DOMAIN text : text[i] # DotDot

IsVaultPath(text) == StaysInside(Unpadded(text))

(* The blanks go first: "./ a" keeps those of its second part, which then  *)
(* begin the result.                                                       *)
Normalized(text) == Collapsed(Unpadded(text))

NormalizeVaultPath(text) == IF IsVaultPath(text) THEN {Normalized(text)} ELSE {}

-----------------------------------------------------------------------------
(* A URL is a host, "none" when it is relative, and the text after it.     *)
(* site is the configured site_base_url, whose path config.py strips of    *)
(* its trailing slash, with flat_urls.                                     *)

(* The part that is left of one with such a character.                     *)
CutBy(before, part) == [before[part.stem] EXCEPT !.padded = part.padded]

(* urlparse: the path ends at the first "?" or "#", ...                    *)
UpToMark(text) ==
    LET marked == {i \in DOMAIN text : text[i].stem \in DOMAIN BeforeMark}
        first  == CHOOSE i \in marked : \A j \in marked : i <= j
    IN  IF marked = {} THEN text
        ELSE SubSeq(text, 1, first - 1) \o <<CutBy(BeforeMark, text[first])>>

(* ... its last part ends at the first ";", ...                            *)
WithoutParams(text) ==
    IF text # Missing /\ Last(text).stem \in DOMAIN BeforeSemicolon
    THEN ReplaceLast(text, CutBy(BeforeSemicolon, Last(text)))
    ELSE text

(* ... and what follows "//" in a relative URL is a host.                  *)
WithoutHost(text) ==
    IF Len(text) >= 3 /\ text[1] = Empty /\ text[2] = Empty
    THEN <<Empty>> \o SubSeq(text, 4, Len(text))
    ELSE text

UrlPathComponent(url) ==
    LET path == WithoutParams(UpToMark(url.path))
        rest == WithoutHost(path)
    IN  CASE url.host # "none" -> path
          [] rest = <<Empty>>  -> url.path
          [] OTHER             -> rest

(* path.strip("/"), or "index".                                            *)
Stripped(text) ==
    LET full  == {i \in DOMAIN text : text[i] # Empty}
        first == CHOOSE i \in full : \A j \in full : i <= j
        last  == CHOOSE i \in full : \A j \in full : i >= j
    IN  IF full = {} THEN <<Index>> ELSE SubSeq(text, first, last)

WithExtension(text) ==
    IF Last(text).md > 0 THEN text ELSE ReplaceLast(text, [Last(text) EXCEPT !.md = 1])

WithoutExtension(text) ==
    IF Last(text).md = 0 THEN text
    ELSE ReplaceLast(text, [Last(text) EXCEPT !.md = @ - 1])

UrlToVaultPath(url) ==
    IF url.host = "other" THEN {}
    ELSE NormalizeVaultPath(WithExtension(Stripped(UrlPathComponent(url))))

\* A mutant of VaultPathToUrl.
DropsIndexAnywhere(path, site) ==
    LET stem  == WithoutExtension(Normalized(path))
        slash == IF site.flat THEN << >> ELSE <<Empty>>
    IN  [host |-> "site",
         path |-> <<Empty>> \o site.prefix \o
                  IF Last(stem) = Index THEN ReplaceLast(stem, Empty) ELSE stem \o slash]

(* Nothing is quoted.                                                      *)
VaultPathToUrl(path, site) ==
    LET stem  == WithoutExtension(Normalized(path))
        slash == IF site.flat THEN << >> ELSE <<Empty>>
    IN  [host |-> "site",
         path |-> <<Empty>> \o site.prefix \o
                  IF stem = <<Index>> THEN <<Empty>> ELSE stem \o slash]

NoUrl == [host |-> "none", path |-> Missing]

(* Exactly one of the two must be given.                                   *)
ResolvePathOrUrl(path, url) ==
    IF IsGiven(path) = (url # NoUrl) THEN {}
    ELSE IF IsGiven(path) THEN NormalizeVaultPath(path)
    ELSE UrlToVaultPath(url)

=============================================================================
