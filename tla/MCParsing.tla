---------------------------- MODULE MCParsing ----------------------------
(***************************************************************************)
(* Small files of all four types, read by the parsers and cut by the       *)
(* chunker, and files that a check or a limit turns away.                  *)
(***************************************************************************)
EXTENDS ParsedChunking

(* The shapes of a paragraph: shorter than the minimum, between, and too   *)
(* long, with sentences that fit, a long sentence, words, a long word.     *)
Short == <<<<2>>>>
Between == <<<<4>>>>
Long == <<<<2>>, <<8, 4, 3>>>>
Shapes ==
  {Short, Between, Long, <<<<1>>>>, <<<<5>>>>, <<<<2>>, <<3>>, <<1>>, <<2>>>>,
   <<<<3, 2, 3>>>>, <<<<1, 9>>>>}

(* A line, of page 0 where a file has no pages. *)
LineOf(kind, heading, sentences, ended) ==
  [kind |-> kind, page |-> 0, title |-> heading, sentences |-> sentences, ended |-> ended]

TextLine(sentences) == LineOf("text", NoTitle, sentences, TRUE)
OpenLine(sentences) == LineOf("text", NoTitle, sentences, FALSE)
Blank == TextLine(<<>>)
Heading(name) == LineOf("heading", name, <<<<1, 3>>>>, FALSE)
Fence(kind) == LineOf(kind, NoTitle, <<<<3>>>>, FALSE)

Styles == [name |-> "styles", safe |-> TRUE, kind |-> "file", encrypted |-> FALSE,
           size |-> 3, packed |-> 1, real |-> 3, declares |-> FALSE]
Archive == << [Styles EXCEPT !.name = "document"], Styles >>

File(type, lines) ==
  [type |-> type, faults |-> {}, members |-> Archive, lines |-> lines,
   pages |-> 0, unreadable |-> {}]

SeqsUpTo(n, S) == UNION {[1 .. k -> S] : k \in 1 .. n}

-----------------------------------------------------------------------------
(* Up to three paragraphs with blank lines between, and two lines of one.  *)
TextFiles ==
  {File("txt", FlattenSeq([k \in DOMAIN shapes |-> <<TextLine(shapes[k]), Blank>>])) :
     shapes \in SeqsUpTo(3, Shapes)}
  \cup {File("txt", <<first, TextLine(second)>>) :
     first \in {OpenLine(shape) : shape \in Shapes} \cup {TextLine(shape) : shape \in Shapes},
     second \in Shapes}

(* Without blank lines in a code block, which count as nothing here. *)
MarkdownFiles ==
  {File("md", lines) : lines \in
     {some \in SeqsUpTo(4, {Heading("one"), Heading("two"), Fence("fence"), Fence("tilde"),
                            Blank, TextLine(Short), TextLine(Between), OpenLine(Long)}) :
        \A i \in DOMAIN some :
          some[i] = Blank => Cardinality({j \in 1 .. i : some[j] = Fence("fence")}) % 2 = 0}}

DocxFiles ==
  {File("docx", blocks) : blocks \in
     SeqsUpTo(3, {Heading("one"), Heading("two"), LineOf("heading", "", <<>>, FALSE),
                  TextLine(Short), OpenLine(Long),
                  LineOf("table", NoTitle, Between, FALSE), LineOf("table", NoTitle, <<>>, FALSE)})}

(* Pages, each with its lines, of which some cannot be extracted. *)
PdfOf(contents, unreadable) ==
  [File("pdf", FlattenSeq([page \in DOMAIN contents |->
      [i \in DOMAIN contents[page] |-> [contents[page][i] EXCEPT !.page = page]]]))
     EXCEPT !.pages = Len(contents), !.unreadable = unreadable]

PdfFiles ==
  UNION {{PdfOf(contents, unreadable) : unreadable \in {{}, {1}, {Len(contents)}}} :
    contents \in
      SeqsUpTo(3, {<<>>, <<Blank>>, <<TextLine(Short)>>, <<TextLine(Between)>>,
                   <<TextLine(Short), Blank, OpenLine(Between)>>, <<OpenLine(Short), TextLine(Long)>>})}
  \cup {PdfOf([page \in 1 .. 4 |-> <<TextLine(Short)>>], {})}

-----------------------------------------------------------------------------
(* Every fault, alone and with a second one. *)
Faults == {check[1] : check \in Range(Checks)} \cup {"known", "malformed", "encrypted", "undecodable"}

FaultyFiles ==
  {[File(type, <<TextLine(Short), OpenLine(Long)>>) EXCEPT !.faults = {first, second}] :
     type \in {"docx", "md", "txt"}, first \in Faults, second \in Faults}
  \cup {[PdfOf(<<<<TextLine(Short)>>>>, {}) EXCEPT !.faults = {first, second}] :
     first \in Faults, second \in Faults}

(* A DOCX file at the limit of its text, which its line ends pass. *)
LimitFiles ==
  {File("docx", <<OpenLine(Long), OpenLine(Long), OpenLine(Long), last>>) :
     last \in {TextLine(Short), OpenLine(<<<<8>>>>), TextLine(<<<<9>>>>), OpenLine(Long)}}

(* Archives of members that are inside and outside of each limit. *)
Archives ==
  {<<>>, Archive \o Archive, <<Styles>>, Archive \o <<[Styles EXCEPT !.name = "other"]>>,
   Archive \o <<[Styles EXCEPT !.name = "other", !.size = 4]>>}
  \cup {<<[Archive[1] EXCEPT !.safe = safe, !.kind = kind, !.encrypted = encrypted,
                             !.size = size, !.real = real, !.declares = declares]>> :
          safe \in BOOLEAN, kind \in {"file", "directory", "special"}, encrypted \in BOOLEAN,
          size \in {3, 4, 5}, real \in {4, 5}, declares \in BOOLEAN}

ArchiveFiles ==
  {[File("docx", <<TextLine(Short)>>) EXCEPT !.members = archive] : archive \in Archives}

MCFiles ==
  TextFiles \cup MarkdownFiles \cup DocxFiles \cup PdfFiles
    \cup FaultyFiles \cup LimitFiles \cup ArchiveFiles

(* Documents on which the assumptions of the chunker are evaluated; those  *)
(* that it cuts here come from the files.                                  *)
MCTexts ==
  {LaidOut(document) : document \in
     SeqsUpTo(2, [place : {<<1, NoTitle>>, <<0, "one">>}, sentences : Shapes])}

MCPlaces == (0 .. 4) \X {NoTitle, "one", "two"}
=============================================================================
