------------------------ MODULE EditRequests_proofs ------------------------
(***************************************************************************)
(* The properties of EditRequests, proved for every set of paths, URLs,    *)
(* sites, model names and answers.                                         *)
(***************************************************************************)
EXTENDS EditRequests, Selection_proofs, SequenceTheorems, FiniteSetTheorems, TLAPS

-----------------------------------------------------------------------------
(* A finite set of numbers has a least and a greatest element.             *)

LEMMA LeastExists ==
  ASSUME NEW K \in SUBSET Nat, K # {}
  PROVE  \E i \in K : \A j \in K : i <= j
  <1>1. PICK i \in K : \A j \in K : <<j, i>> \notin OpToRel(<, Nat)
    BY NatLessThanWellFounded, WFMin
  <1>2. \A j \in K : <<j, i>> \in OpToRel(<, Nat) <=> j < i
    BY DEF OpToRel
  <1>3. \A j \in K : ~(j < i) /\ i \in Nat /\ j \in Nat
    BY <1>1, <1>2
  <1>4. QED
    BY <1>3

LEMMA GreatestExists ==
  ASSUME NEW K \in SUBSET Nat, K # {}, NEW n \in Nat, \A i \in K : i <= n
  PROVE  \E i \in K : \A j \in K : i >= j
  <1> DEFINE Below == {n - i : i \in K}
  <1>1. Below \in SUBSET Nat /\ Below # {}
    <2>1. \A i \in K : i \in Nat /\ i <= n
      OBVIOUS
    <2>2. \A i \in K : n - i \in Nat
      BY <2>1
    <2>3. QED
      BY <2>2
  <1>2. PICK d \in Below : \A e \in Below : d <= e
    BY <1>1, LeastExists
  <1>3. PICK i \in K : d = n - i
    OBVIOUS
  <1>4. \A j \in K : n - i <= n - j
    BY <1>2, <1>3
  <1>5. QED
    BY <1>3, <1>4

-----------------------------------------------------------------------------
(* Paths.  A file is named by a text in normal form: the root, or parts    *)
(* none of which is empty, "." or "..".                                    *)
IsFileName(text) ==
    /\ text \in Seq(Parts) /\ text # Missing
    /\ \/ text = <<Dot>>
       \/ \A i \in DOMAIN text : text[i] \notin {Empty, Dot, DotDot}

Kept(text) == {i \in DOMAIN text : text[i] \notin {Empty, Dot}}

LEMMA PartsAreRecords ==
  ASSUME NEW stem \in Stems, NEW md \in Nat
  PROVE  /\ Part(stem, md) \in Parts
         /\ Part(stem, md).stem = stem /\ Part(stem, md).md = md
         /\ ~Part(stem, md).padded
  BY DEF Part, Parts

LEMMA PartsWithoutExtension ==
  ASSUME NEW part \in Parts, part.md = 1
  PROVE  /\ [part EXCEPT !.md = 0] \in Parts
         /\ [part EXCEPT !.md = 0].md = 0
         /\ [part EXCEPT !.md = 0].stem = part.stem
         /\ [part EXCEPT !.md = @ - 1] = [part EXCEPT !.md = 0]
         /\ [[part EXCEPT !.md = 0] EXCEPT !.md = 1] = part
  <1>1. /\ part.stem \in Stems /\ part.padded \in BOOLEAN
        /\ part = [stem |-> part.stem, md |-> 1, padded |-> part.padded]
    BY DEF Parts
  <1>2. [part EXCEPT !.md = 0] = [stem |-> part.stem, md |-> 0, padded |-> part.padded]
    BY <1>1
  <1>3. [[part EXCEPT !.md = 0] EXCEPT !.md = 1] = part
    BY <1>1, <1>2
  <1>4. [part EXCEPT !.md = @ - 1] = [part EXCEPT !.md = 0]
    OBVIOUS
  <1>5. QED
    BY <1>1, <1>2, <1>3, <1>4 DEF Parts

LEMMA EmptyIsUnmarked ==
  Empty.stem \notin DOMAIN BeforeMark /\ Empty.stem \notin DOMAIN BeforeSemicolon
  <1>1. Empty.stem = ""
    BY DEF Part, Empty
  <1>2. QED
    BY <1>1, StemsAssumption

LEMMA NamedParts ==
  /\ {Empty, Dot, DotDot, Index} \subseteq Parts
  /\ Dot # Empty /\ Dot # DotDot /\ Empty # DotDot /\ Empty # Index
  <1>1. {Empty, Dot, DotDot, Index} \subseteq Parts
    <2>1. {"", ".", "..", "index"} \subseteq Stems /\ 0 \in Nat
      BY StemsAssumption
    <2>2. \A stem \in {"", ".", "..", "index"} : Part(stem, 0) \in Parts
      BY <2>1, PartsAreRecords
    <2>3. QED
      BY <2>2 DEF Empty, Dot, DotDot, Index
  <1>2. /\ Empty.stem = "" /\ Dot.stem = "." /\ DotDot.stem = ".." /\ Index.stem = "index"
    BY DEF Part, Empty, Dot, DotDot, Index
  <1>3. /\ "" # "." /\ "" # ".." /\ "." # ".." /\ "" # "index"
    OBVIOUS
  <1>4. QED
    BY <1>1, <1>2, <1>3

LEMMA CollapsedByParts ==
  ASSUME NEW text
  PROVE  Collapsed(text) = IF ItemsAt(text, Kept(text)) = << >> THEN <<Dot>>
                           ELSE ItemsAt(text, Kept(text))
  BY DEF Collapsed, Kept

LEMMA UnpaddedIsText ==
  ASSUME NEW text \in Seq(Parts)
  PROVE  /\ Unpadded(text) \in Seq(Parts)
         /\ ~StartsWithBlanks(Unpadded(text))
  <1>1. CASE StartsWithBlanks(text)
    <2> DEFINE part == [text[1] EXCEPT !.padded = FALSE]
               bare == [text EXCEPT ![1] = part]
    <2>1. Len(text) \in Nat /\ Len(text) >= 1 /\ text[1] \in Parts
      BY <1>1 DEF StartsWithBlanks, Missing
    <2>2. part \in Parts /\ ~part.padded
      BY <2>1 DEF Parts
    <2>3. Unpadded(text) = bare
      BY <1>1 DEF Unpadded
    <2> HIDE DEF part
    <2>4. bare \in Seq(Parts) /\ Len(bare) = Len(text) /\ bare[1] = part
      BY <2>1, <2>2
    <2> HIDE DEF bare
    <2>5. Head(bare) = bare[1]
      BY <2>4
    <2>6. ~StartsWithBlanks(bare)
      BY <2>2, <2>4, <2>5 DEF StartsWithBlanks
    <2>7. QED
      BY <2>3, <2>4, <2>6
  <1>2. CASE ~StartsWithBlanks(text)
    BY <1>2 DEF Unpadded
  <1>3. QED
    BY <1>1, <1>2

LEMMA UnpaddedStays ==
  ASSUME NEW text, ~StartsWithBlanks(text)
  PROVE  Unpadded(text) = text
  BY DEF Unpadded

(* What is left of a path inside the vault is a file name.                 *)
LEMMA CollapsedIsFileName ==
  ASSUME NEW text \in Seq(Parts), StaysInside(text)
  PROVE  IsFileName(Collapsed(text))
  <1> DEFINE kept == ItemsAt(text, Kept(text))
  <1>1. /\ kept \in Seq(Parts)
        /\ \A n \in DOMAIN kept : kept[n] \in {text[i] : i \in Kept(text)}
    <2>1. Kept(text) \in SUBSET DOMAIN text
      BY DEF Kept
    <2>2. /\ kept \in Seq(Parts) /\ Len(kept) = Cardinality(Kept(text))
          /\ \A n \in 1..Cardinality(Kept(text)) : kept[n] \in {text[i] : i \in Kept(text)}
      BY <2>1, ItemsAtKeepsThose
    <2>3. QED
      BY <2>2
  <1>2. \A i \in Kept(text) : text[i] \notin {Empty, Dot, DotDot}
    BY DEF Kept, StaysInside
  <1>3. CASE kept = << >>
    <2>1. <<Dot>> \in Seq(Parts) /\ <<Dot>> # << >>
      BY NamedParts
    <2>2. QED
      BY <1>3, <2>1, CollapsedByParts DEF IsFileName, Missing
  <1>4. CASE kept # << >>
    BY <1>1, <1>2, <1>4, CollapsedByParts DEF IsFileName, Missing
  <1>5. QED
    BY <1>3, <1>4

LEMMA NormalizedIsFileName ==
  ASSUME NEW text \in Seq(Parts), IsVaultPath(text)
  PROVE  IsFileName(Normalized(text))
  BY UnpaddedIsText, CollapsedIsFileName DEF IsVaultPath, Normalized

(* Normalising a file name that does not begin with blanks changes         *)
(* nothing, and the policy accepts it.                                     *)
LEMMA FileNameIsNormal ==
  ASSUME NEW file, IsFileName(file), ~StartsWithBlanks(file)
  PROVE  IsVaultPath(file) /\ Normalized(file) = file
  <1> USE UnpaddedStays
  <1>1. file \in Seq(Parts) /\ Len(file) \in Nat /\ Len(file) > 0 /\ Head(file) = file[1]
    BY DEF IsFileName, Missing
  <1>2. CASE file = <<Dot>>
    <2>1. IsVaultPath(file)
      BY <1>1, <1>2, NamedParts DEF IsVaultPath, StaysInside, Missing
    <2>2. Kept(file) = {}
      BY <1>2 DEF Kept
    <2>3. ItemsAt(file, {}) = << >>
      BY FS_EmptySet DEF ItemsAt
    <2>4. QED
      BY <1>2, <2>1, <2>2, <2>3, CollapsedByParts DEF Normalized
  <1>3. CASE \A i \in DOMAIN file : file[i] \notin {Empty, Dot, DotDot}
    <2>1. IsVaultPath(file)
      BY <1>1, <1>3 DEF IsVaultPath, StaysInside, Missing
    <2>2. Kept(file) = DOMAIN file
      BY <1>3 DEF Kept
    <2>3. ItemsAt(file, Kept(file)) = file
      BY <1>1, <2>2, ItemsAtAll
    <2>4. QED
      BY <1>1, <2>1, <2>3, CollapsedByParts DEF Normalized
  <1>4. QED
    BY <1>2, <1>3 DEF IsFileName

-----------------------------------------------------------------------------
(* URLs.  What is stripped of a URL's path is what lies between the first  *)
(* and the last part that is not empty.                                    *)

LEMMA StrippedIsText ==
  ASSUME NEW text \in Seq(Parts)
  PROVE  Stripped(text) \in Seq(Parts) /\ Stripped(text) # << >>
  <1> DEFINE full  == {i \in DOMAIN text : text[i] # Empty}
             first == CHOOSE i \in full : \A j \in full : i <= j
             last  == CHOOSE i \in full : \A j \in full : i >= j
  <1>1. CASE full = {}
    <2>1. <<Index>> \in Seq(Parts) /\ <<Index>> # << >>
      BY NamedParts
    <2>2. QED
      BY <1>1, <2>1 DEF Stripped
  <1>2. CASE full # {}
    <2>1. full \in SUBSET Nat /\ IsFiniteSet(full) /\ \A i \in full : i <= Len(text)
      BY FS_Interval, FS_Subset
    <2>2. first \in full /\ \A j \in full : first <= j
      BY <1>2, <2>1, LeastExists
    <2>3. last \in full /\ \A j \in full : last >= j
      <3>1. Len(text) \in Nat
        OBVIOUS
      <3>2. \E i \in full : \A j \in full : i >= j
        BY <1>2, <2>1, <3>1, GreatestExists
      <3>3. QED
        BY <3>2
    <2> HIDE DEF first, last
    <2>4. first \in 1..Len(text) /\ last \in 1..Len(text) /\ first <= last
      BY <2>2, <2>3
    <2>5. SubSeq(text, first, last) \in Seq(Parts) /\ Len(SubSeq(text, first, last)) > 0
      BY <2>4, SubSeqProperties
    <2>6. Stripped(text) = SubSeq(text, first, last)
      BY <1>2 DEF Stripped, first, last
    <2>7. SubSeq(text, first, last) # << >>
      <3>1. Len(<< >>) = 0
        BY EmptySeq
      <3>2. Len(SubSeq(text, first, last)) # 0
        BY <2>5
      <3>3. QED
        BY <3>1, <3>2
    <2>8. QED
      BY <2>5, <2>6, <2>7
  <1>3. QED
    BY <1>1, <1>2

LEMMA SlashIsText ==
  ASSUME NEW slash \in {<< >>, <<Empty>>}
  PROVE  slash \in Seq(Parts) /\ Len(slash) \in {0, 1}
  <1>1. << >> \in Seq(Parts) /\ Len(<< >>) = 0
    BY EmptySeq
  <1>2. <<Empty>> \in Seq(Parts) /\ Len(<<Empty>>) = 1
    BY NamedParts
  <1>3. QED
    BY <1>1, <1>2

LEMMA StrippedOfOneName ==
  ASSUME NEW text \in Seq(Parts), text # << >>,
         \A i \in DOMAIN text : text[i] # Empty,
         NEW slash \in {<< >>, <<Empty>>}
  PROVE  Stripped(<<Empty>> \o (text \o slash)) = text
  <1> DEFINE path  == <<Empty>> \o (text \o slash)
             n     == Len(text)
             full  == {i \in DOMAIN path : path[i] # Empty}
             first == CHOOSE i \in full : \A j \in full : i <= j
             last  == CHOOSE i \in full : \A j \in full : i >= j
  <1>1. n \in Nat /\ n >= 1 /\ path \in Seq(Parts) /\ Len(path) \in {n + 1, n + 2}
    <2>1. <<Empty>> \in Seq(Parts) /\ Len(<<Empty>>) = 1
      BY NamedParts
    <2>2. slash \in Seq(Parts) /\ Len(slash) \in {0, 1}
      BY SlashIsText
    <2>3. /\ n \in Nat /\ n >= 1 /\ text \o slash \in Seq(Parts)
          /\ Len(text \o slash) = n + Len(slash)
      BY <2>2
    <2>4. path \in Seq(Parts) /\ Len(path) = 1 + Len(text \o slash)
      BY <2>1, <2>3
    <2> HIDE DEF path, n
    <2>5. Len(path) = 1 + (n + Len(slash))
      BY <2>3, <2>4
    <2>6. Len(path) = n + 1 \/ Len(path) = n + 2
      <3>1. Len(slash) = 0 => Len(path) = n + 1
        BY <2>3, <2>5
      <3>2. Len(slash) = 1 => Len(path) = n + 2
        BY <2>3, <2>5
      <3>3. QED
        BY <2>2, <3>1, <3>2
    <2>7. QED
      BY <2>3, <2>4, <2>6
  <1>2. /\ path[1] = Empty
        /\ \A i \in 2..n + 1 : path[i] = text[i - 1]
        /\ \A i \in n + 2..Len(path) : path[i] = Empty
    BY <1>1
  <1>3. full = 2..n + 1
    BY <1>1, <1>2
  <1> HIDE DEF path, full
  <1>4. first = 2
    <2>1. 2 \in full /\ \A j \in full : 2 <= j
      BY <1>1, <1>3
    <2>2. QED
      BY <1>3, <2>1
  <1>5. last = n + 1
    <2>1. n + 1 \in full /\ \A j \in full : n + 1 >= j
      BY <1>1, <1>3
    <2>2. QED
      BY <1>1, <1>3, <2>1
  <1>6. Stripped(path) = SubSeq(path, first, last)
    <2>1. 2 \in full
      BY <1>1, <1>3
    <2>2. full # {}
      BY <2>1
    <2>3. QED
      BY <2>2 DEF Stripped, full
  <1> HIDE DEF first, last
  <1>7. SubSeq(path, 2, n + 1) = text
    <2>1. /\ SubSeq(path, 2, n + 1) \in Seq(Parts) /\ Len(SubSeq(path, 2, n + 1)) = n
          /\ \A i \in 1..n : SubSeq(path, 2, n + 1)[i] = path[i + 1]
      BY <1>1, SubSeqProperties
    <2>2. \A i \in 1..n : path[i + 1] = text[i]
      BY <1>1, <1>2
    <2>3. QED
      BY <2>1, <2>2, SeqEqual
  <1>8. QED
    BY <1>4, <1>5, <1>6, <1>7 DEF path

(* Taking the extension of a name off and putting it on again.             *)
LEMMA ExtensionComesBack ==
  ASSUME NEW file \in Seq(Parts), file # << >>, Last(file).md = 1
  PROVE  LET stem == WithoutExtension(file)
         IN  /\ stem \in Seq(Parts) /\ Len(stem) = Len(file)
             /\ Last(stem) = [Last(file) EXCEPT !.md = 0]
             /\ \A i \in 1..Len(file) - 1 : stem[i] = file[i]
             /\ WithExtension(stem) = file
  <1> DEFINE n    == Len(file)
             stem == [file EXCEPT ![n] = [Last(file) EXCEPT !.md = 0]]
  <1>1. n \in Nat /\ n >= 1 /\ file[n] \in Parts
    OBVIOUS
  <1>2. Last(file) \in Parts
    BY <1>1 DEF Last
  <1>3. /\ [Last(file) EXCEPT !.md = 0] \in Parts
        /\ [Last(file) EXCEPT !.md = 0].md = 0
        /\ [Last(file) EXCEPT !.md = @ - 1] = [Last(file) EXCEPT !.md = 0]
        /\ [[Last(file) EXCEPT !.md = 0] EXCEPT !.md = 1] = Last(file)
    BY <1>2, PartsWithoutExtension
  <1>4. /\ WithoutExtension(file) = stem /\ stem \in Seq(Parts) /\ Len(stem) = n
        /\ Last(stem) = [Last(file) EXCEPT !.md = 0]
        /\ \A i \in 1..n - 1 : stem[i] = file[i]
    BY <1>1, <1>3 DEF WithoutExtension, ReplaceLast, Last
  <1> HIDE DEF stem
  <1>5. Last(stem).md = 0 /\ [Last(stem) EXCEPT !.md = 1] = Last(file)
    BY <1>3, <1>4
  <1>6. WithExtension(stem) = [stem EXCEPT ![n] = Last(file)]
    <2>1. WithExtension(stem) = ReplaceLast(stem, [Last(stem) EXCEPT !.md = 1])
      BY <1>5 DEF WithExtension
    <2>2. [Last(stem) EXCEPT !.md = 1] = Last(file)
      BY <1>5
    <2>3. Len(stem) = n
      BY <1>4
    <2>4. QED
      BY <2>1, <2>2, <2>3 DEF ReplaceLast
  <1>7. [stem EXCEPT ![n] = Last(file)] = file
    <2> DEFINE again == [stem EXCEPT ![n] = Last(file)]
    <2>1. again \in Seq(Parts) /\ Len(again) = n
      BY <1>1, <1>4 DEF Last
    <2>2. \A i \in 1..n : again[i] = file[i]
      BY <1>1, <1>4 DEF Last
    <2>3. QED
      BY <2>1, <2>2, SeqEqual
  <1>8. QED
    BY <1>4, <1>6, <1>7

LEMMA WithExtensionIsText ==
  ASSUME NEW text \in Seq(Parts), text # << >>
  PROVE  WithExtension(text) \in Seq(Parts)
  <1>1. Len(text) \in Nat /\ Len(text) >= 1 /\ Last(text) \in Parts
    BY DEF Last
  <1>2. [Last(text) EXCEPT !.md = 1] \in Parts
    BY <1>1 DEF Parts
  <1>3. QED
    BY <1>1, <1>2 DEF WithExtension, ReplaceLast

(* What urlparse leaves of a text is a text.                               *)
LEMMA CutPartIsPart ==
  ASSUME NEW before \in {BeforeMark, BeforeSemicolon},
         NEW part \in Parts, part.stem \in DOMAIN before
  PROVE  CutBy(before, part) \in Parts
  <1>1. before[part.stem] \in Parts
    BY StemsAssumption
  <1>2. part.padded \in BOOLEAN
    BY DEF Parts
  <1>3. QED
    BY <1>1, <1>2 DEF CutBy, Parts

LEMMA UpToMarkIsText ==
  ASSUME NEW text \in Seq(Parts)
  PROVE  UpToMark(text) \in Seq(Parts)
  <1> DEFINE marked == {i \in DOMAIN text : text[i].stem \in DOMAIN BeforeMark}
             first  == CHOOSE i \in marked : \A j \in marked : i <= j
  <1>1. CASE marked = {}
    BY <1>1 DEF UpToMark
  <1>2. CASE marked # {}
    <2>1. marked \in SUBSET Nat
      OBVIOUS
    <2>2. first \in marked
      BY <1>2, <2>1, LeastExists
    <2> HIDE DEF first
    <2>3. /\ first \in 1..Len(text) /\ text[first] \in Parts
          /\ text[first].stem \in DOMAIN BeforeMark
      BY <2>2
    <2>4. <<CutBy(BeforeMark, text[first])>> \in Seq(Parts)
      BY <2>3, CutPartIsPart
    <2>5. SubSeq(text, 1, first - 1) \in Seq(Parts)
      BY <2>3, SubSeqProperties
    <2>6. UpToMark(text) = SubSeq(text, 1, first - 1) \o <<CutBy(BeforeMark, text[first])>>
      BY <1>2 DEF UpToMark, first
    <2>7. QED
      BY <2>4, <2>5, <2>6, ConcatProperties
  <1>3. QED
    BY <1>1, <1>2

LEMMA WithoutParamsIsText ==
  ASSUME NEW text \in Seq(Parts)
  PROVE  WithoutParams(text) \in Seq(Parts)
  <1>1. CASE text # Missing /\ Last(text).stem \in DOMAIN BeforeSemicolon
    <2>1. Len(text) \in Nat /\ Len(text) >= 1 /\ Last(text) \in Parts
      BY <1>1 DEF Last, Missing
    <2>2. CutBy(BeforeSemicolon, Last(text)) \in Parts
      BY <1>1, <2>1, CutPartIsPart
    <2>3. QED
      BY <1>1, <2>1, <2>2 DEF WithoutParams, ReplaceLast
  <1>2. CASE ~(text # Missing /\ Last(text).stem \in DOMAIN BeforeSemicolon)
    BY <1>2 DEF WithoutParams
  <1>3. QED
    BY <1>1, <1>2

LEMMA WithoutHostIsText ==
  ASSUME NEW text \in Seq(Parts)
  PROVE  WithoutHost(text) \in Seq(Parts)
  <1>1. CASE Len(text) >= 3 /\ text[1] = Empty /\ text[2] = Empty
    <2>1. SubSeq(text, 4, Len(text)) \in Seq(Parts)
      <3>1. Len(text) \in Nat
        OBVIOUS
      <3>2. \A i \in 4..Len(text) : text[i] \in Parts
        OBVIOUS
      <3>3. QED
        BY <3>1, <3>2, SubSeqProperties
    <2>2. <<Empty>> \in Seq(Parts)
      BY NamedParts
    <2>3. QED
      BY <1>1, <2>1, <2>2, ConcatProperties DEF WithoutHost
  <1>2. CASE ~(Len(text) >= 3 /\ text[1] = Empty /\ text[2] = Empty)
    BY <1>2 DEF WithoutHost
  <1>3. QED
    BY <1>1, <1>2

LEMMA UrlPathIsText ==
  ASSUME NEW url, url.path \in Seq(Parts)
  PROVE  UrlPathComponent(url) \in Seq(Parts)
  <1> DEFINE path == WithoutParams(UpToMark(url.path))
  <1>1. path \in Seq(Parts) /\ WithoutHost(path) \in Seq(Parts)
    BY UpToMarkIsText, WithoutParamsIsText, WithoutHostIsText
  <1>2. QED
    BY <1>1 DEF UrlPathComponent

LEMMA NothingIsGiven ==
  ~IsGiven(Missing) /\ \A text : IsGiven(text) \in BOOLEAN
  <1>1. Unpadded(Missing) = Missing
    BY DEF Unpadded, StartsWithBlanks
  <1>2. QED
    BY <1>1 DEF IsGiven

(* What a request resolves to is a file name.                              *)
LEMMA ResolvedIsFileName ==
  ASSUME NEW file \in LinkFiles
  PROVE  IsFileName(file)
  <1>0. PICK path \in Paths \cup {Missing}, url \in Urls \cup {NoUrl} :
            file \in ResolvePathOrUrl(path, url)
    BY DEF LinkFiles
  <1>1. Paths \subseteq Seq(Parts) /\ \A u \in Urls : u.path \in Seq(Parts)
    BY RequestsAssumption
  <1>2. CASE IsGiven(path) /\ url = NoUrl
    <2>1. path \in Paths
      BY <1>2, NothingIsGiven
    <2>2. IsVaultPath(path) /\ file = Normalized(path)
      BY <1>0, <1>2 DEF ResolvePathOrUrl, NormalizeVaultPath
    <2>3. QED
      BY <1>1, <2>1, <2>2, NormalizedIsFileName
  <1>3. CASE ~IsGiven(path) /\ url # NoUrl
    <2> DEFINE text == WithExtension(Stripped(UrlPathComponent(url)))
    <2>1. url \in Urls /\ file \in UrlToVaultPath(url)
      BY <1>0, <1>3 DEF ResolvePathOrUrl
    <2>2. file \in NormalizeVaultPath(text)
      BY <2>1 DEF UrlToVaultPath
    <2>3. IsVaultPath(text) /\ file = Normalized(text)
      BY <2>2 DEF NormalizeVaultPath
    <2>4. text \in Seq(Parts)
      BY <1>1, <2>1, UrlPathIsText, StrippedIsText, WithExtensionIsText
    <2>5. QED
      BY <2>3, <2>4, NormalizedIsFileName
  <1>4. QED
    BY <1>0, <1>2, <1>3, NothingIsGiven DEF ResolvePathOrUrl

(* urlparse leaves the path of a URL whole that has no mark.               *)
LEMMA UnmarkedStaysWhole ==
  ASSUME NEW text \in Seq(Parts), text # << >>,
         \A i \in DOMAIN text : text[i].stem \notin DOMAIN BeforeMark,
         NEW slash \in {<< >>, <<Empty>>},
         slash = << >> => Last(text).stem \notin DOMAIN BeforeSemicolon
  PROVE  LET path == <<Empty>> \o (text \o slash)
         IN  WithoutParams(UpToMark(path)) = path
  <1> DEFINE path == <<Empty>> \o (text \o slash)
             n    == Len(text)
  <1>1. /\ n \in Nat /\ n >= 1 /\ Len(slash) \in {0, 1}
        /\ path \in Seq(Parts) /\ Len(path) = n + 1 + Len(slash)
        /\ path[1] = Empty
        /\ \A i \in 2..n + 1 : path[i] = text[i - 1]
        /\ Len(slash) = 1 => path[n + 2] = Empty
    <2>1. slash \in Seq(Parts) /\ Len(slash) \in {0, 1}
      BY SlashIsText
    <2>2. <<Empty>> \in Seq(Parts) /\ Len(<<Empty>>) = 1 /\ <<Empty>>[1] = Empty
      BY NamedParts
    <2>3. n \in Nat /\ n >= 1
      OBVIOUS
    <2>4. Len(slash) = 1 => slash[1] = Empty
      <3>1. Len(<< >>) = 0
        BY EmptySeq
      <3>2. QED
        BY <2>2, <3>1
    <2> DEFINE tail == text \o slash
    <2>5. /\ tail \in Seq(Parts) /\ Len(tail) = n + Len(slash)
          /\ \A i \in 1..n : tail[i] = text[i]
          /\ Len(slash) = 1 => tail[n + 1] = slash[1]
      BY <2>1, <2>3, ConcatProperties
    <2> HIDE DEF tail, n
    <2>6. /\ <<Empty>> \o tail \in Seq(Parts)
          /\ Len(<<Empty>> \o tail) = 1 + Len(tail)
          /\ (<<Empty>> \o tail)[1] = Empty
          /\ \A i \in 1..Len(tail) : (<<Empty>> \o tail)[i + 1] = tail[i]
      BY <2>2, <2>5, ConcatProperties
    <2>7. path = <<Empty>> \o tail
      BY DEF tail
    <2> HIDE DEF path
    <2>8. \A i \in 2..n + 1 : i - 1 \in 1..n /\ (i - 1) + 1 = i
      BY <2>3
    <2>9. \A i \in 2..n + 1 : path[i] = text[i - 1]
      BY <2>1, <2>3, <2>5, <2>6, <2>7, <2>8
    <2>10. Len(slash) = 1 => path[n + 2] = Empty
      BY <2>3, <2>4, <2>5, <2>6, <2>7
    <2>11. path \in Seq(Parts) /\ path[1] = Empty /\ Len(path) = 1 + Len(tail)
      BY <2>6, <2>7
    <2>12. Len(path) = n + 1 + Len(slash)
      BY <2>1, <2>3, <2>5, <2>11
    <2>13. QED
      BY <2>1, <2>3, <2>9, <2>10, <2>11, <2>12
  <1> HIDE DEF path
  <1>2. UpToMark(path) = path
    <2>1. \A i \in 2..n + 1 : path[i].stem \notin DOMAIN BeforeMark
      BY <1>1
    <2>2. path[1].stem \notin DOMAIN BeforeMark
      BY <1>1, EmptyIsUnmarked
    <2>3. Len(slash) = 1 => path[n + 2].stem \notin DOMAIN BeforeMark
      BY <1>1, EmptyIsUnmarked
    <2> HIDE DEF n
    <2>4. \A i \in 1..Len(path) : i = 1 \/ i \in 2..n + 1 \/ (Len(slash) = 1 /\ i = n + 2)
      <3>1. /\ n \in Nat /\ n >= 1
            /\ Len(path) = n + 1 \/ (Len(slash) = 1 /\ Len(path) = n + 2)
        <4>1. /\ n \in Nat /\ n >= 1
              /\ Len(slash) = 0 \/ Len(slash) = 1
              /\ Len(path) = n + 1 + Len(slash)
          BY <1>1
        <4>2. Len(slash) = 0 => Len(path) = n + 1
          BY <4>1
        <4>3. Len(slash) = 1 => Len(path) = n + 2
          BY <4>1
        <4>4. QED
          BY <4>1, <4>2, <4>3
      <3>2. \A l \in Nat : \A i \in 1..l + 2 : i = 1 \/ i \in 2..l + 1 \/ i = l + 2
        OBVIOUS
      <3>3. \A l \in Nat : \A i \in 1..l + 1 : i = 1 \/ i \in 2..l + 1
        OBVIOUS
      <3>4. QED
        BY <3>1, <3>2, <3>3
    <2>5. DOMAIN path = 1..Len(path)
      BY <1>1, LenProperties
    <2>6. \A i \in DOMAIN path : path[i].stem \notin DOMAIN BeforeMark
      BY <2>1, <2>2, <2>3, <2>4, <2>5
    <2>7. {i \in DOMAIN path : path[i].stem \in DOMAIN BeforeMark} = {}
      BY <2>6
    <2>8. QED
      BY <2>7 DEF UpToMark
  <1>3. Last(path).stem \notin DOMAIN BeforeSemicolon
    <2>1. CASE Len(slash) = 1
      BY <1>1, <2>1, EmptyIsUnmarked DEF Last
    <2>2. CASE Len(slash) = 0
      <3>1. slash = << >>
        <4>1. Len(<<Empty>>) = 1
          OBVIOUS
        <4>2. QED
          BY <2>2, <4>1
      <3>2. Last(path) = Last(text)
        BY <1>1, <2>2 DEF Last
      <3>3. QED
        BY <3>1, <3>2
    <2>3. QED
      BY <1>1, <2>1, <2>2
  <1>4. QED
    BY <1>2, <1>3 DEF WithoutParams, path

(* The URL of a page resolves to the page.                                 *)
LEMMA PageUrlResolves ==
  ASSUME NEW file, IsFileName(file),
         Last(file).md = 1, [Last(file) EXCEPT !.md = 0] # Empty,
         ~StartsWithBlanks(file),
         \A i \in DOMAIN file : file[i].stem \notin DOMAIN BeforeMark,
         NEW s, s.prefix = << >>,
         s.flat => Last(file).stem \notin DOMAIN BeforeSemicolon
  PROVE  ResolvePathOrUrl(Missing, VaultPathToUrl(file, s)) = {file}
  <1> DEFINE stem  == WithoutExtension(file)
             slash == IF s.flat THEN << >> ELSE <<Empty>>
             path  == IF stem = <<Index>> THEN <<Empty>> ELSE stem \o slash
             url   == VaultPathToUrl(file, s)
  <1>1. /\ file \in Seq(Parts) /\ file # << >>
        /\ IsVaultPath(file) /\ Normalized(file) = file
    BY FileNameIsNormal DEF IsFileName, Missing
  <1>2. /\ stem \in Seq(Parts) /\ Len(stem) = Len(file) /\ stem # << >>
        /\ Last(stem) = [Last(file) EXCEPT !.md = 0]
        /\ \A i \in 1..Len(file) - 1 : stem[i] = file[i]
        /\ WithExtension(stem) = file
    <2>1. /\ stem \in Seq(Parts) /\ Len(stem) = Len(file)
          /\ Last(stem) = [Last(file) EXCEPT !.md = 0]
          /\ \A i \in 1..Len(file) - 1 : stem[i] = file[i]
          /\ WithExtension(stem) = file
      BY <1>1, ExtensionComesBack
    <2>2. Len(file) # 0 /\ Len(<< >>) = 0
      BY <1>1, EmptySeq
    <2>3. QED
      BY <2>1, <2>2
  <1>3. \A i \in DOMAIN stem : stem[i] # Empty
    <2>1. file # <<Dot>>
      <3>1. Dot.md = 0
        BY DEF Dot, Part
      <3>2. Last(<<Dot>>) = Dot
        BY DEF Last
      <3>3. file = <<Dot>> => Last(file) = Dot
        BY <3>2
      <3>4. file = <<Dot>> => Last(file).md = 0
        BY <3>1, <3>3
      <3>5. Last(file).md # 0
        OBVIOUS
      <3>6. QED
        BY <3>4, <3>5
    <2>2. \A i \in DOMAIN file : file[i] # Empty
      BY <2>1 DEF IsFileName
    <2>4. Len(stem) \in Nat /\ DOMAIN stem = 1..Len(stem) /\ DOMAIN file = 1..Len(file)
      BY <1>1, <1>2, LenProperties
    <2>5. stem[Len(stem)] # Empty
      BY <1>2 DEF Last
    <2> HIDE DEF stem
    <2>6. \A n \in Nat : \A i \in 1..n : i = n \/ i \in 1..n - 1
      OBVIOUS
    <2>7. QED
      BY <1>2, <2>2, <2>4, <2>5, <2>6
  <1> HIDE DEF stem, slash
  <1>4. url = [host |-> "site", path |-> <<Empty>> \o << >> \o path]
    BY <1>1 DEF VaultPathToUrl, stem, slash
  <1> HIDE DEF path, url
  <1>5. slash \in {<< >>, <<Empty>>}
    BY DEF slash
  <1>6. Stripped(url.path) = stem
    <2>1. CASE stem = <<Index>>
      <3>1. url.path = <<Empty, Empty>>
        <4>1. <<Empty>> \o << >> \o <<Empty>> = <<Empty, Empty>>
          <5>1. <<Empty>> \o << >> = <<Empty>>
            BY SlashIsText, ConcatEmptySeq
          <5>2. <<Empty>> \o <<Empty>> = <<Empty, Empty>>
            <6> DEFINE two == <<Empty, Empty>>
                       sum == <<Empty>> \o <<Empty>>
            <6>1. <<Empty>> \in Seq(Parts) /\ Len(<<Empty>>) = 1 /\ <<Empty>>[1] = Empty
              BY NamedParts
            <6>2. sum \in Seq(Parts) /\ Len(sum) = 2 /\ \A i \in 1..2 : sum[i] = Empty
              BY <6>1, ConcatProperties
            <6>3. two \in Seq(Parts) /\ Len(two) = 2 /\ \A i \in 1..2 : two[i] = Empty
              BY NamedParts
            <6> HIDE DEF two, sum
            <6>4. two = sum
              BY <6>2, <6>3, SeqEqual
            <6>5. QED
              BY <6>4 DEF two, sum
          <5>3. QED
            BY <5>1, <5>2
        <4>2. path = <<Empty>>
          BY <2>1 DEF path
        <4>3. QED
          BY <1>4, <4>1, <4>2
      <3>2. {i \in DOMAIN <<Empty, Empty>> : <<Empty, Empty>>[i] # Empty} = {}
        <4>1. DOMAIN <<Empty, Empty>> = {1, 2}
          OBVIOUS
        <4>2. <<Empty, Empty>>[1] = Empty /\ <<Empty, Empty>>[2] = Empty
          OBVIOUS
        <4>3. QED
          BY <4>1, <4>2
      <3>3. QED
        BY <2>1, <3>1, <3>2 DEF Stripped
    <2>2. CASE stem # <<Index>>
      <3>1. stem \o slash \in Seq(Parts)
        <4>1. slash \in Seq(Parts)
          BY <1>5, SlashIsText
        <4>2. QED
          BY <1>2, <4>1, ConcatProperties
      <3>2. url.path = <<Empty>> \o (stem \o slash)
        <4>1. path = stem \o slash
          BY <2>2 DEF path
        <4>2. <<Empty>> \o << >> = <<Empty>>
          BY SlashIsText, ConcatEmptySeq
        <4>3. QED
          BY <1>4, <4>1, <4>2
      <3>3. QED
        BY <1>2, <1>3, <1>5, <3>2, StrippedOfOneName
    <2>3. QED
      BY <2>1, <2>2
  <1>7. url.host = "site" /\ url.host # "none" /\ url # NoUrl
    <2>1. url.host = "site" /\ NoUrl.host = "none"
      BY <1>4 DEF NoUrl
    <2>2. QED
      BY <2>1
  <1>8. UrlToVaultPath(url) = NormalizeVaultPath(file)
    <2>1. UrlPathComponent(url) = url.path
      <3>1. url.path = <<Empty>> \o path
        <4>1. <<Empty>> \o << >> = <<Empty>>
          BY SlashIsText, ConcatEmptySeq
        <4>2. QED
          BY <1>4, <4>1
      <3>2. CASE stem = <<Index>>
        <4>1. path = <<Empty>> \o << >>
          <5>1. <<Empty>> \o << >> = <<Empty>>
            BY SlashIsText, ConcatEmptySeq
          <5>2. QED
            BY <3>2, <5>1 DEF path
        <4>2. /\ <<Empty>> \in Seq(Parts) /\ <<Empty>> # << >>
              /\ Last(<<Empty>>).stem \notin DOMAIN BeforeSemicolon
              /\ \A i \in DOMAIN <<Empty>> : <<Empty>>[i].stem \notin DOMAIN BeforeMark
          BY NamedParts, EmptyIsUnmarked DEF Last
        <4>3. WithoutParams(UpToMark(<<Empty>> \o (<<Empty>> \o << >>)))
                 = <<Empty>> \o (<<Empty>> \o << >>)
          BY <4>2, UnmarkedStaysWhole
        <4>4. QED
          BY <1>7, <3>1, <4>1, <4>3 DEF UrlPathComponent
      <3>3. CASE stem # <<Index>>
        <4>1. path = stem \o slash
          BY <3>3 DEF path
        <4>2. Last(stem).stem = Last(file).stem
          <5>1. Last(file) \in Parts
            BY <1>1 DEF Last
          <5>2. QED
            BY <1>2, <5>1, PartsWithoutExtension
        <4>3. \A i \in DOMAIN stem : stem[i].stem \notin DOMAIN BeforeMark
          <5>1. Len(stem) \in Nat /\ DOMAIN stem = 1..Len(stem) /\ DOMAIN file = 1..Len(file)
            BY <1>1, <1>2, LenProperties
          <5>2. Len(file) # 0 /\ Last(file) = file[Len(file)] /\ Last(stem) = stem[Len(stem)]
            BY <1>1, EmptySeq DEF Last
          <5>3. stem[Len(stem)].stem \notin DOMAIN BeforeMark
            <6>1. Len(file) \in DOMAIN file
              BY <1>2, <5>1, <5>2
            <6>2. file[Len(file)].stem \notin DOMAIN BeforeMark
              BY <6>1
            <6>3. QED
              BY <4>2, <5>2, <6>2
          <5>4. \A i \in 1..Len(file) - 1 : stem[i].stem \notin DOMAIN BeforeMark
            BY <1>2, <5>1
          <5>5. \A i \in 1..Len(stem) : i = Len(stem) \/ i \in 1..Len(stem) - 1
            BY <5>1
          <5>6. QED
            BY <1>2, <5>1, <5>3, <5>4, <5>5
        <4>4. slash = << >> => Last(stem).stem \notin DOMAIN BeforeSemicolon
          <5>1. slash = << >> => s.flat
            <6>1. << >> # <<Empty>>
              OBVIOUS
            <6>2. QED
              BY <6>1 DEF slash
          <5>2. QED
            BY <4>2, <5>1
        <4>5. WithoutParams(UpToMark(<<Empty>> \o (stem \o slash)))
                 = <<Empty>> \o (stem \o slash)
          BY <1>2, <1>5, <4>3, <4>4, UnmarkedStaysWhole
        <4>6. QED
          BY <1>7, <3>1, <4>1, <4>5 DEF UrlPathComponent
      <3>4. QED
        BY <3>2, <3>3
    <2>2. QED
      BY <1>2, <1>6, <1>7, <2>1 DEF UrlToVaultPath
  <1>9. QED
    <2>1. ResolvePathOrUrl(Missing, url) = UrlToVaultPath(url)
      BY <1>7, NothingIsGiven DEF ResolvePathOrUrl
    <2>2. NormalizeVaultPath(file) = {file}
      BY <1>1 DEF NormalizeVaultPath
    <2>3. QED
      BY <1>8, <2>1, <2>2 DEF url

-----------------------------------------------------------------------------
(* Models.                                                                 *)

LEMMA ItemsAtNone ==
  ASSUME NEW S, NEW seq \in Seq(S), NEW K \in SUBSET DOMAIN seq
  PROVE  ItemsAt(seq, K) = << >> <=> K = {}
  <1>1. Len(ItemsAt(seq, K)) = Cardinality(K) /\ ItemsAt(seq, K) \in Seq(S) /\ IsFiniteSet(K)
    BY ItemsAtKeepsThose
  <1>2. ItemsAt(seq, K) = << >> <=> Len(ItemsAt(seq, K)) = 0
    BY <1>1, EmptySeq
  <1>3. QED
    BY <1>1, <1>2, FS_EmptySet

LEMMA FirstOfItems ==
  ASSUME NEW S, NEW seq \in Seq(S), NEW K \in SUBSET DOMAIN seq, K # {}
  PROVE  Head(ItemsAt(seq, K)) \in {seq[i] : i \in K}
  <1>1. /\ ItemsAt(seq, K) \in Seq(S) /\ Len(ItemsAt(seq, K)) = Cardinality(K)
        /\ \A n \in 1..Cardinality(K) : ItemsAt(seq, K)[n] \in {seq[i] : i \in K}
    BY ItemsAtKeepsThose
  <1>2. ItemsAt(seq, K) # << >>
    BY ItemsAtNone
  <1>3. Head(ItemsAt(seq, K)) = ItemsAt(seq, K)[1] /\ 1 \in 1..Cardinality(K)
    BY <1>1, <1>2, EmptySeq
  <1>4. QED
    BY <1>1, <1>3

(* The only model on offer is taken, or one of several that says           *)
(* "instruct".                                                             *)
LEMMA ResolvedModelFits ==
  ASSUME NEW a \in Answers
  PROVE  LET offered == {a.items[i] : i \in DOMAIN a.items} \ {NoName}
             fit     == {m \in offered : m \in Instruct}
             single  == Cardinality({i \in DOMAIN a.items : a.items[i] # NoName}) = 1
         IN  /\ \/ ResolveModelName(a) = {}
                \/ \E m \in Names : ResolveModelName(a) = {m}
             /\ IF a.shape # "list" THEN ResolveModelName(a) = {}
                ELSE IF single THEN ResolveModelName(a) = offered
                ELSE /\ ResolveModelName(a) \subseteq fit
                     /\ ResolveModelName(a) = {} <=> fit = {}
  <1> DEFINE K        == {i \in DOMAIN a.items : a.items[i] # NoName}
             ids      == ItemsAt(a.items, K)
             KI       == {i \in DOMAIN ids : ids[i] \in Instruct}
             instruct == ItemsAt(ids, KI)
             offered  == {a.items[i] : i \in DOMAIN a.items} \ {NoName}
             fit      == {m \in offered : m \in Instruct}
             M        == ResolveModelName(a)
  <1>1. a.items \in Seq(Names \cup {NoName}) /\ K \in SUBSET DOMAIN a.items
    BY RequestsAssumption
  <1>2. CASE a.shape # "list"
    <2>1. ExtractModelIds(a) = << >> /\ Len(<< >>) = 0
      BY <1>2, EmptySeq DEF ExtractModelIds
    <2>2. M = {}
      BY <2>1 DEF ResolveModelName
    <2>3. QED
      BY <1>2, <2>2
  <1>3. CASE a.shape = "list"
    <2>1. ExtractModelIds(a) = ids
      BY <1>3 DEF ExtractModelIds
    <2>2. /\ ids \in Seq(Names \cup {NoName}) /\ Len(ids) = Cardinality(K) /\ IsFiniteSet(K)
          /\ \A n \in 1..Len(ids) : ids[n] \in {a.items[i] : i \in K}
          /\ \A i \in K : \E n \in 1..Len(ids) : ids[n] = a.items[i]
      <3> HIDE DEF K
      <3>1. /\ ids \in Seq(Names \cup {NoName}) /\ Len(ids) = Cardinality(K) /\ IsFiniteSet(K)
            /\ \A n \in 1..Cardinality(K) : ids[n] \in {a.items[i] : i \in K}
            /\ \A i \in K : \E n \in 1..Cardinality(K) : ids[n] = a.items[i]
        BY <1>1, ItemsAtKeepsThose
      <3> HIDE DEF ids
      <3>2. QED
        BY <3>1
    <2> HIDE DEF ids
    <2>3. KI \in SUBSET DOMAIN ids /\ DOMAIN ids = 1..Len(ids) /\ Len(ids) \in Nat
      BY <2>2
    <2>4. offered = {ids[n] : n \in DOMAIN ids}
      <3>1. offered = {a.items[i] : i \in K}
        OBVIOUS
      <3> HIDE DEF K, offered
      <3>2. ASSUME NEW i \in K
            PROVE  a.items[i] \in {ids[n] : n \in DOMAIN ids}
        BY <2>2, <2>3
      <3>3. ASSUME NEW n \in DOMAIN ids
            PROVE  ids[n] \in {a.items[i] : i \in K}
        BY <2>2, <2>3
      <3>4. QED
        BY <3>1, <3>2, <3>3
    <2>5. fit = {ids[n] : n \in KI}
      BY <2>4
    <2>6. offered \subseteq Names
      BY <1>1
    <2>7. instruct = << >> <=> KI = {}
      BY <2>2, <2>3, ItemsAtNone
    <2>8. KI # {} => Head(instruct) \in fit
      BY <2>2, <2>3, <2>5, FirstOfItems
    <2>9. Len(ids) = 1 => Head(ids) = ids[1] /\ offered = {ids[1]}
      <3> HIDE DEF offered
      <3>1. Len(ids) = 1 => Head(ids) = ids[1] /\ DOMAIN ids = {1}
        <4>1. Len(ids) = 1 => ids # << >>
          BY EmptySeq
        <4>2. ids # << >> => Head(ids) = ids[1]
          BY <2>2
        <4>3. Len(ids) = 1 => DOMAIN ids = {1}
          BY <2>3
        <4>4. QED
          BY <4>1, <4>2, <4>3
      <3>2. QED
        BY <2>4, <3>1
    <2>10. M = IF Len(ids) = 1 THEN {Head(ids)}
               ELSE IF Len(ids) > 1 /\ instruct # << >> THEN {Head(instruct)} ELSE {}
      BY <1>3, <2>1, <2>3 DEF ResolveModelName
    <2> HIDE DEF M, instruct, KI, fit, offered
    <2>11. CASE Len(ids) = 1
      <3>1. M = offered /\ M = {ids[1]} /\ ids[1] \in Names
        BY <2>6, <2>9, <2>10, <2>11
      <3>2. QED
        BY <1>3, <2>2, <2>11, <3>1 DEF M, offered
    <2>12. CASE Len(ids) # 1
      <3>1. KI # {} => Len(ids) > 1
        BY <2>3, <2>12
      <3>2. KI # {} => M = {Head(instruct)} /\ Head(instruct) \in fit /\ fit # {}
        BY <2>7, <2>8, <2>10, <2>12, <3>1
      <3>3. KI = {} => M = {} /\ fit = {}
        BY <2>5, <2>7, <2>10, <2>12
      <3>4. fit \subseteq Names
        BY <2>6 DEF fit
      <3>5. /\ M = {} \/ \E m \in Names : M = {m}
            /\ M \subseteq fit /\ (M = {} <=> fit = {})
        BY <3>2, <3>3, <3>4
      <3>6. Cardinality(K) # 1
        BY <2>2, <2>12
      <3>7. QED
        BY <1>3, <3>5, <3>6 DEF M, fit, offered
    <2>13. QED
      BY <2>11, <2>12
  <1>4. QED
    BY <1>2, <1>3

LEMMA BuiltModel ==
  ASSUME NEW a \in Answers, NEW c \in Configs, IsAgentConfig(c)
  PROVE  BuildModel(c, a) = {} \/ \E m \in Names : BuildModel(c, a) = {m}
  <1>1. c.model \in Names
    BY DEF Configs, IsAgentConfig
  <1>2. ResolveModelName(a) = {} \/ \E m \in Names : ResolveModelName(a) = {m}
    BY ResolvedModelFits
  <1>3. QED
    BY <1>1, <1>2 DEF BuildModel

-----------------------------------------------------------------------------
(* The inductive invariant.  The run's policy is that of a validated       *)
(* request, what the run did obeys the policy, and the link was answered   *)
(* for a file name.                                                        *)

ModelFits ==
    /\ server = "building" => IsAgentConfig(config)
    /\ server \in {"built", "failed"} =>
          /\ answer \in Answers /\ IsAgentConfig(config)
          /\ model = BuildModel(config, answer)

RunFits ==
    run # NoRun =>
        /\ run.interface \in Interfaces
        /\ run.scope = NoScope \/ run.scope.path \in Files
        /\ run.tools = AllowedToolNames(run.interface, run.scope)
        /\ run.paths = AllowedWritePaths(run.scope)
        /\ run.current # Missing =>
              /\ run.current \in {Unpadded(text) : text \in Texts} \cup Files
              /\ StartsWithBlanks(run.current) \/ IsVaultPath(run.current)
              /\ run.scope # NoScope => run.current = run.scope.path

Idle ==
    run = NoRun => edited = {} /\ ~created /\ ~synced

LinkFits ==
    link # NoLink =>
        /\ IsFileName(link.file) /\ link.file \in LinkFiles
        /\ link.url = VaultPathToUrl(link.file, site)

DataFits ==
    /\ server \in {"building", "built", "serving", "failed"}
    /\ config \in Configs
    /\ answer \in Answers \cup {NoAnswer}
    /\ model = {} \/ \E m \in Names : model = {m}
    /\ site \in Sites
    /\ edited \subseteq Texts /\ created \in BOOLEAN
    /\ synced \in BOOLEAN

RequestsInv ==
    /\ DataFits
    /\ ModelFits
    /\ RunFits
    /\ Idle
    /\ LinkFits
    /\ ScopedRunKeepsToItsFile

-----------------------------------------------------------------------------
(* The policy.                                                             *)

LEMMA FilesAreFileNames ==
  ASSUME NEW file \in Files
  PROVE  /\ IsFileName(file)
         /\ ~StartsWithBlanks(file) => IsVaultPath(file) /\ Normalized(file) = file
  <1>1. PICK text \in Texts : IsVaultPath(text) /\ file = Normalized(text)
    BY DEF Files
  <1>2. text \in Seq(Parts)
    BY RequestsAssumption
  <1>3. QED
    BY <1>1, <1>2, NormalizedIsFileName, FileNameIsNormal

LEMMA NoRunFacts ==
  /\ NoRun.interface = "none" /\ NoRun.scope = NoScope /\ NoRun.current = Missing
  /\ NoRun.tools = {} /\ NoRun.paths = {}
  /\ NoScope.kind = "none" /\ NoScope.path = Missing
  BY DEF NoRun, NoScope

LEMMA ValidatedFacts ==
  ASSUME NEW scope
  PROVE  /\ scope = NoScope => Validated(scope) = NoScope
         /\ scope # NoScope => /\ Validated(scope).path = Normalized(scope.path)
                               /\ Validated(scope).kind = scope.kind
  BY DEF Validated, NoScope

(* A validated request gives a run that fits it.                           *)
LEMMA RequestedRunFits ==
  ASSUME NEW payload \in Requests, payload.interface # "unknown",
         run' = JobRequest(payload)
  PROVE  RunFits' /\ run' # NoRun
  <1> DEFINE scope == Validated(payload.scope)
  <1>0. payload \in Payloads /\ IsApplyRequest(payload)
    BY DEF Requests
  <1>1. /\ payload.interface \in Interfaces \cup {"none"}
        /\ payload.scope \in Scopes \cup {NoScope}
        /\ payload.current \in Texts \cup {Missing}
    BY <1>0 DEF Payloads
  <1>2. /\ run'.interface = IF payload.interface = "none" THEN "command" ELSE payload.interface
        /\ run'.scope = scope
        /\ run'.current = IF payload.current = Missing THEN scope.path
                          ELSE Unpadded(payload.current)
        /\ run'.tools = AllowedToolNames(run'.interface, scope)
        /\ run'.paths = AllowedWritePaths(scope)
    BY DEF JobRequest
  <1>3. run'.interface \in Interfaces
    BY <1>1, <1>2 DEF Interfaces
  <1>4. run' # NoRun
    <2>1. "none" \notin Interfaces
      BY DEF Interfaces
    <2>2. QED
      BY <1>3, <2>1, NoRunFacts
  <1>5. CASE payload.scope = NoScope
    <2>1. scope = NoScope /\ scope.path = Missing
      BY <1>5, ValidatedFacts, NoRunFacts
    <2>2. CASE payload.current # Missing
      <3>1. payload.current \in Texts /\ IsVaultPath(payload.current)
        BY <1>0, <1>1, <2>2 DEF IsApplyRequest
      <3>2. payload.current \in Seq(Parts)
        BY <3>1, RequestsAssumption
      <3>3. ~StartsWithBlanks(Unpadded(payload.current))
        BY <3>2, UnpaddedIsText
      <3>4. IsVaultPath(Unpadded(payload.current))
        BY <3>1, <3>3, UnpaddedStays DEF IsVaultPath
      <3>5. run'.current = Unpadded(payload.current)
        BY <1>2, <2>2
      <3>6. QED
        BY <1>2, <1>3, <1>4, <2>1, <3>1, <3>4, <3>5 DEF RunFits
    <2>3. CASE payload.current = Missing
      BY <1>2, <1>3, <1>4, <2>1, <2>3 DEF RunFits
    <2>4. QED
      BY <2>2, <2>3
  <1>6. CASE payload.scope # NoScope
    <2>1. payload.scope.path \in Texts /\ IsVaultPath(payload.scope.path)
      BY <1>0, <1>1, <1>6 DEF IsApplyRequest, IsScope, Scopes
    <2>2. scope.path = Normalized(payload.scope.path) /\ scope.path \in Files
      BY <1>6, <2>1, ValidatedFacts DEF Files
    <2>3. payload.current # Missing => Unpadded(payload.current) = scope.path
      BY <1>0, <1>6 DEF IsApplyRequest
    <2>4. run'.current = scope.path
      BY <1>2, <2>3
    <2>5. StartsWithBlanks(scope.path) \/ IsVaultPath(scope.path)
      BY <2>2, FilesAreFileNames
    <2>6. QED
      BY <1>2, <1>3, <1>4, <2>2, <2>4, <2>5 DEF RunFits
  <1>7. QED
    BY <1>4, <1>5, <1>6

(* What the policy of a scoped run lets through is a spelling of its file. *)
LEMMA AllowedPathIsTheFile ==
  ASSUME RunFits, run # NoRun, run.scope # NoScope, ~StartsWithBlanks(run.scope.path),
         NEW path, PathAllowed(run, path)
  PROVE  NormalizeVaultPath(path) = {run.scope.path}
  <1>1. run.scope.path \in Files /\ run.paths = {run.scope.path}
    BY DEF RunFits, AllowedWritePaths
  <1>2. IsVaultPath(run.scope.path) /\ NormalizeForPolicy(run.scope.path) = run.scope.path
    BY <1>1, FilesAreFileNames DEF NormalizeForPolicy
  <1>3. NormalizeForPolicy(path) = run.scope.path
    BY <1>1, <1>2 DEF PathAllowed
  <1>4. IsVaultPath(path) /\ Normalized(path) = run.scope.path
    BY <1>2, <1>3 DEF NormalizeForPolicy
  <1>5. QED
    BY <1>4 DEF NormalizeVaultPath

(* From the web interface, no tool reaches the remote, and none creates a  *)
(* page when the scope is a part of a file.                                *)
LEMMA WebTools ==
  ASSUME NEW kind
  PROVE  /\ ForgeWebTools(kind) \subseteq CommandTools
         /\ ForgeWebTools(kind) \cap SyncingTools = {}
         /\ kind \in {"heading", "block", "selection"} =>
               "create_from_template" \notin ForgeWebTools(kind)
  BY DEF ForgeWebTools, CommandTools, SyncingTools, ReadOnly, EditingTools

LEMMA InvariantTypes == RequestsInv => RequestsTypeOK
  <1> SUFFICES ASSUME RequestsInv PROVE RequestsTypeOK
    OBVIOUS
  <1>1. model \subseteq Names /\ Cardinality(model) <= 1
    <2>1. model = {} \/ \E m \in Names : model = {m}
      BY DEF RequestsInv, DataFits
    <2>2. QED
      BY <2>1, FS_EmptySet, FS_Singleton
  <1>2. link.file \in LinkFiles \cup {Missing}
    BY DEF RequestsInv, LinkFits, NoLink
  <1>3. /\ run.interface \in Interfaces \cup {"none"}
        /\ run.tools \subseteq CommandTools
        /\ run.current \in {Unpadded(text) : text \in Texts} \cup Files \cup {Missing}
        /\ run.paths \subseteq Files
    <2>1. CASE run = NoRun
      BY <2>1, NoRunFacts
    <2>2. CASE run # NoRun
      <3>1. run.tools \subseteq CommandTools
        BY <2>2, WebTools DEF RequestsInv, RunFits, AllowedToolNames
      <3>2. QED
        BY <2>2, <3>1 DEF RequestsInv, RunFits, AllowedWritePaths
    <2>3. QED
      BY <2>1, <2>2
  <1>4. QED
    BY <1>1, <1>2, <1>3 DEF RequestsInv, DataFits, RequestsTypeOK

-----------------------------------------------------------------------------
(* The invariant holds initially and every action preserves it.            *)

LEMMA InitFits == Init => RequestsInv
  <1> SUFFICES ASSUME Init PROVE RequestsInv
    OBVIOUS
  <1>1. DataFits /\ Idle /\ ModelFits /\ LinkFits
    BY DEF Init, DataFits, Idle, ModelFits, LinkFits
  <1>2. RunFits
    BY DEF Init, RunFits
  <1>3. ScopedRunKeepsToItsFile
    <2>1. run.scope = NoScope /\ run.interface # "forge_web"
      BY NoRunFacts DEF Init
    <2>2. QED
      BY <2>1 DEF ScopedRunKeepsToItsFile
  <1>4. QED
    BY <1>1, <1>2, <1>3 DEF RequestsInv

(* What an action that leaves the run alone leaves of the invariant.       *)
LEMMA RunUntouched ==
  ASSUME RequestsInv, UNCHANGED runVars
  PROVE  RunFits' /\ Idle' /\ ScopedRunKeepsToItsFile'
  BY DEF RequestsInv, runVars, RunFits, Idle, ScopedRunKeepsToItsFile

LEMMA LinkUntouched ==
  ASSUME RequestsInv, UNCHANGED <<site, link>>
  PROVE  LinkFits'
  BY DEF RequestsInv, LinkFits

LEMMA ServerUntouched ==
  ASSUME RequestsInv, UNCHANGED bootVars
  PROVE  ModelFits'
  BY DEF RequestsInv, bootVars, ModelFits

LEMMA BuildAgentFits ==
  ASSUME RequestsInv, NEW a \in Answers, BuildAgent(a)
  PROVE  RequestsInv'
  <1>1. config \in Configs /\ IsAgentConfig(config)
    BY DEF RequestsInv, DataFits, ModelFits, BuildAgent
  <1>2. model' = BuildModel(config, a) /\ (model' = {} \/ \E m \in Names : model' = {m})
    BY <1>1, BuiltModel DEF BuildAgent
  <1>3. DataFits'
    BY <1>2 DEF RequestsInv, DataFits, BuildAgent, runVars
  <1>4. ModelFits'
    BY <1>1, <1>2 DEF ModelFits, BuildAgent
  <1>5. QED
    BY <1>3, <1>4, RunUntouched, LinkUntouched DEF RequestsInv, BuildAgent

LEMMA ServeFits ==
  ASSUME RequestsInv, Serve
  PROVE  RequestsInv'
  <1>1. config' \in Configs
    BY NamesAssumption DEF Serve, NoConfig, Configs
  <1>2. DataFits'
    BY <1>1 DEF RequestsInv, DataFits, Serve, runVars
  <1>3. ModelFits'
    BY DEF ModelFits, Serve
  <1>4. QED
    BY <1>2, <1>3, RunUntouched, LinkUntouched DEF RequestsInv, Serve

LEMMA ApplyFits ==
  ASSUME RequestsInv, NEW payload \in Requests, Apply(payload)
  PROVE  RequestsInv'
  <1>1. edited = {} /\ ~created /\ ~synced
    BY DEF RequestsInv, Idle, Apply
  <1>2. RunFits' /\ run' # NoRun
    BY RequestedRunFits DEF Apply
  <1>3. ScopedRunKeepsToItsFile'
    BY <1>1 DEF ScopedRunKeepsToItsFile, Apply
  <1>4. DataFits' /\ Idle'
    BY <1>2 DEF RequestsInv, DataFits, Idle, Apply, bootVars
  <1>5. QED
    BY <1>2, <1>3, <1>4, ServerUntouched, LinkUntouched DEF RequestsInv, Apply

LEMMA EditWithFits ==
  ASSUME RequestsInv, NEW path \in Texts, EditWith(path)
  PROVE  RequestsInv'
  <1>1. /\ run # NoRun /\ PathAllowed(run, path)
        /\ edited' = edited \cup {path}
        /\ UNCHANGED <<bootVars, site, link, run, created, synced>>
    BY DEF EditWith
  <1>2. DataFits' /\ Idle' /\ RunFits'
    BY <1>1 DEF RequestsInv, DataFits, Idle, RunFits, bootVars
  <1>3. ScopedRunKeepsToItsFile'
    <2>1. run.scope # NoScope /\ ~StartsWithBlanks(run.scope.path) =>
             NormalizeVaultPath(path) = {run.scope.path}
      BY <1>1, AllowedPathIsTheFile DEF RequestsInv
    <2>2. QED
      BY <1>1, <2>1 DEF RequestsInv, ScopedRunKeepsToItsFile
  <1>4. QED
    BY <1>1, <1>2, <1>3, ServerUntouched, LinkUntouched DEF RequestsInv

LEMMA CreateFromTemplateFits ==
  ASSUME RequestsInv, CreateFromTemplate
  PROVE  RequestsInv'
  <1>1. /\ run # NoRun /\ "create_from_template" \in run.tools
        /\ created' = TRUE
        /\ UNCHANGED <<bootVars, site, link, run, edited, synced>>
    BY DEF CreateFromTemplate, MayUse, ToolAllowed
  <1>2. DataFits' /\ Idle' /\ RunFits'
    BY <1>1 DEF RequestsInv, DataFits, Idle, RunFits, bootVars
  <1>3. ScopedRunKeepsToItsFile'
    <2>1. run.interface = "forge_web" =>
             ~(run.scope.kind \in {"heading", "block", "selection"})
      <3>1. run.interface = "forge_web" => run.tools = ForgeWebTools(run.scope.kind)
        BY <1>1 DEF RequestsInv, RunFits, AllowedToolNames
      <3>2. QED
        BY <1>1, <3>1, WebTools
    <2>2. QED
      BY <1>1, <2>1 DEF RequestsInv, ScopedRunKeepsToItsFile
  <1>4. QED
    BY <1>1, <1>2, <1>3, ServerUntouched, LinkUntouched DEF RequestsInv

LEMMA SyncFits ==
  ASSUME RequestsInv, Sync
  PROVE  RequestsInv'
  <1>1. /\ run # NoRun /\ synced' = TRUE
        /\ UNCHANGED <<bootVars, site, link, run, edited, created>>
    BY DEF Sync
  <1>2. PICK tool \in SyncingTools : tool \in run.tools
    BY DEF Sync, MayUse, ToolAllowed
  <1>3. DataFits' /\ Idle' /\ RunFits'
    BY <1>1 DEF RequestsInv, DataFits, Idle, RunFits, bootVars
  <1>4. run.interface # "forge_web"
    <2>1. run.interface = "forge_web" => run.tools = ForgeWebTools(run.scope.kind)
      BY <1>1 DEF RequestsInv, RunFits, AllowedToolNames
    <2>2. QED
      BY <1>2, <2>1, WebTools
  <1>5. ScopedRunKeepsToItsFile'
    BY <1>1, <1>4 DEF RequestsInv, ScopedRunKeepsToItsFile
  <1>6. QED
    BY <1>1, <1>3, <1>5, ServerUntouched, LinkUntouched DEF RequestsInv

LEMMA EndRunFits ==
  ASSUME RequestsInv, EndRun
  PROVE  RequestsInv'
  <1>1. /\ run' = NoRun /\ edited' = {} /\ created' = FALSE /\ synced' = FALSE
        /\ UNCHANGED <<bootVars, site, link>>
    BY DEF EndRun
  <1>2. DataFits' /\ Idle' /\ RunFits'
    BY <1>1 DEF RequestsInv, DataFits, Idle, RunFits, bootVars
  <1>3. ScopedRunKeepsToItsFile'
    <2>1. run'.scope = NoScope /\ run'.interface # "forge_web"
      BY <1>1, NoRunFacts
    <2>2. QED
      BY <2>1 DEF ScopedRunKeepsToItsFile
  <1>4. QED
    BY <1>1, <1>2, <1>3, ServerUntouched, LinkUntouched DEF RequestsInv

LEMMA AnswerUrlFits ==
  ASSUME RequestsInv, NEW file \in LinkFiles, AnswerUrl(file)
  PROVE  RequestsInv'
  <1>1. link' = [file |-> file, url |-> VaultPathToUrl(file, site)]
    BY DEF AnswerUrl
  <1>2. LinkFits'
    <2>1. link'.file = file /\ link'.url = VaultPathToUrl(file, site) /\ site' = site
      BY <1>1 DEF AnswerUrl
    <2>2. QED
      BY <2>1, ResolvedIsFileName DEF LinkFits
  <1>3. DataFits'
    BY DEF RequestsInv, DataFits, AnswerUrl, bootVars, runVars
  <1>4. QED
    BY <1>2, <1>3, RunUntouched, ServerUntouched DEF RequestsInv, AnswerUrl

LEMMA NextFits == RequestsInv /\ [Next]_vars => RequestsInv'
  <1> SUFFICES ASSUME RequestsInv, [Next]_vars PROVE RequestsInv'
    OBVIOUS
  <1>1. ASSUME NEW a \in Answers, BuildAgent(a) PROVE RequestsInv'
    BY <1>1, BuildAgentFits
  <1>2. CASE Serve
    BY <1>2, ServeFits
  <1>3. ASSUME NEW payload \in Requests, Apply(payload) PROVE RequestsInv'
    BY <1>3, ApplyFits
  <1>4. ASSUME NEW path \in Texts, EditWith(path) PROVE RequestsInv'
    BY <1>4, EditWithFits
  <1>5. CASE CreateFromTemplate
    BY <1>5, CreateFromTemplateFits
  <1>6. CASE Sync
    BY <1>6, SyncFits
  <1>7. CASE EndRun
    BY <1>7, EndRunFits
  <1>8. ASSUME NEW file \in LinkFiles, AnswerUrl(file) PROVE RequestsInv'
    BY <1>8, AnswerUrlFits
  <1>9. CASE UNCHANGED vars
    <2>1. UNCHANGED runVars /\ UNCHANGED <<site, link>> /\ UNCHANGED bootVars
      BY <1>9 DEF vars
    <2>2. DataFits'
      BY <2>1 DEF RequestsInv, DataFits, bootVars, runVars
    <2>3. QED
      BY <2>1, <2>2, RunUntouched, LinkUntouched, ServerUntouched DEF RequestsInv
  <1>10. QED
    BY <1>1, <1>2, <1>3, <1>4, <1>5, <1>6, <1>7, <1>8, <1>9 DEF Next, Run

(* The policy of a run, what it did and what was answered fit together in  *)
(* every reachable state (agent_routes.py 37-68, tools.py 42-58).          *)
THEOREM RequestsInvariant == Spec => []RequestsInv
  BY InitFits, NextFits, PTL DEF Spec

-----------------------------------------------------------------------------
(* The properties.                                                         *)

(* Every variable stays in its type: what is edited, created and linked is *)
(* a file in normal form, and there is at most one model (agent.py         *)
(* 54-140).                                                                *)
THEOREM RequestsTypes == Spec => []RequestsTypeOK
  BY RequestsInvariant, InvariantTypes, PTL

(* Every path a scoped run writes to is, without surrounding blanks and    *)
(* normalised, the path of its scope, unless that one begins with blanks;  *)
(* and no tool of the web interface reaches the remote (tools.py 42-58,    *)
(* 79, forge_web.py 20-33).                                                *)
THEOREM ScopeIsKept == Spec => []ScopedRunKeepsToItsFile
  <1>1. RequestsInv => ScopedRunKeepsToItsFile
    BY DEF RequestsInv
  <1>2. QED
    BY <1>1, RequestsInvariant, PTL

(* The policy accepts the current file of the prompt, and it is a path of  *)
(* the vault unless it begins with blanks (models.py 54, 73, 87-92,        *)
(* agent_routes.py 51-53).                                                 *)
THEOREM CurrentFileIsWritable == Spec => []PromptFileIsWritable
  <1>1. RequestsInv => PromptFileIsWritable
    <2> SUFFICES ASSUME RequestsInv, run.current # Missing
                 PROVE  /\ PathAllowed(run, run.current)
                        /\ StartsWithBlanks(run.current) \/ IsVaultPath(run.current)
      BY DEF PromptFileIsWritable
    <2>1. run # NoRun
      BY NoRunFacts
    <2>2. /\ run.paths = AllowedWritePaths(run.scope)
          /\ StartsWithBlanks(run.current) \/ IsVaultPath(run.current)
          /\ run.scope # NoScope => run.current = run.scope.path
      BY <2>1 DEF RequestsInv, RunFits
    <2>3. PathAllowed(run, run.current)
      BY <2>2 DEF PathAllowed, AllowedWritePaths
    <2>4. QED
      BY <2>2, <2>3
  <1>2. QED
    BY <1>1, RequestsInvariant, PTL

(* The URL of a page whose name has one ".md" after a stem, does not begin *)
(* with blanks, and has no character that ends the path of a URL, resolves *)
(* to the page (web_paths.py 30-90).                                       *)
THEOREM UrlLeadsBack == Spec => []AnsweredUrlLeadsBack
  <1>1. RequestsInv => AnsweredUrlLeadsBack
    <2>1. ASSUME RequestsInv, link # NoLink, site.prefix = << >>, HasLastingUrl(link.file)
          PROVE  ResolvePathOrUrl(Missing, link.url) = {link.file}
      <3>1. IsFileName(link.file) /\ link.url = VaultPathToUrl(link.file, site)
        BY <2>1 DEF RequestsInv, LinkFits
      <3>2. [Last(link.file) EXCEPT !.md = 0] # Empty
        <4>1. Last(link.file) \in Parts
          BY <3>1 DEF IsFileName, Last, Missing
        <4>2. [Last(link.file) EXCEPT !.md = 0].stem = Last(link.file).stem
          BY <2>1, <4>1, PartsWithoutExtension, Zenon DEF HasLastingUrl
        <4>3. Empty.stem = "" /\ Last(link.file).stem # ""
          BY <2>1, Zenon DEF HasLastingUrl, Empty, Part
        <4>4. QED
          BY <4>2, <4>3, Zenon
      <3>3. QED
        BY <2>1, <3>1, <3>2, PageUrlResolves, Zenon DEF HasLastingUrl
    <2>2. QED
      BY <2>1, Zenon DEF AnsweredUrlLeadsBack
  <1>2. QED
    BY <1>1, RequestsInvariant, PTL

(* The model the service starts with is the configured one, or one that    *)
(* the server offers (agent.py 54-140).                                    *)
THEOREM ModelIsOffered == Spec => []AsksAnOfferedModel
  <1>1. RequestsInv => AsksAnOfferedModel
    <2> SUFFICES ASSUME RequestsInv, server \in {"built", "failed"}
                 PROVE  AsksAnOfferedModel
      BY DEF AsksAnOfferedModel
    <2>1. answer \in Answers /\ model = BuildModel(config, answer)
      BY DEF RequestsInv, ModelFits
    <2>2. CASE config.baseUrl = "url" /\ config.provider = "openai" /\ config.model \in Generic
      <3>1. model = ResolveModelName(answer)
        BY <2>1, <2>2 DEF BuildModel
      <3>2. QED
        BY <2>1, <2>2, <3>1, ResolvedModelFits DEF AsksAnOfferedModel
    <2>3. CASE ~(config.baseUrl = "url" /\ config.provider = "openai" /\ config.model \in Generic)
      BY <2>1, <2>3 DEF BuildModel, AsksAnOfferedModel
    <2>4. QED
      BY <2>2, <2>3
  <1>2. QED
    BY <1>1, RequestsInvariant, PTL

=============================================================================
