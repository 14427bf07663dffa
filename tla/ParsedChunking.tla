--------------------------- MODULE ParsedChunking ---------------------------
(***************************************************************************)
(* A file on its way to chunks: what the parser hands over is laid out as   *)
(* the paragraphs that the chunker sees, and then cut.                     *)
(***************************************************************************)
EXTENDS DocumentParsing, Chunking

(* The pages and the headings of the files are places of the chunker. *)
ASSUME FilesHavePlaces ==
  \A f \in Files :
    ({0} \cup 1 .. f.pages)
      \X ({NoTitle} \cup {line.title : line \in {f.lines[i] : i \in {j \in DOMAIN f.lines :
             f.lines[j].kind = "heading" /\ f.lines[j].sentences # <<>>}}})
      \subseteq Places

fileVars == <<parsingVars, vars>>

-----------------------------------------------------------------------------
(* split_paragraphs_preserving_code, of the lines of a section: a piece     *)
(* ends at a blank line, except between two fences of backticks, which are *)
(* paired from the first one on; tildes are text to it.                    *)
FencesUpTo(lines, k) == Cardinality({j \in 1 .. k : Line(lines[j]).kind = "fence"})

(* After this line a pair is open: the fence has a second one below. *)
IsOpen(lines, k) ==
  FencesUpTo(lines, k) % 2 = 1 /\ FencesUpTo(lines, k) < FencesUpTo(lines, Len(lines))

Opens(lines, k) == Line(lines[k]).kind = "fence" /\ IsOpen(lines, k)

Closes(lines, k) == Line(lines[k]).kind = "fence" /\ FencesUpTo(lines, k) % 2 = 0

AddTo(pieces, i) == Append(Front(pieces), Append(Last(pieces), i))

Take(lines, pieces, k) ==
  IF IsBlank(lines[k]) /\ ~IsOpen(lines, k) THEN Append(pieces, <<>>)
  ELSE IF Opens(lines, k) THEN Append(pieces, <<lines[k]>>)
  ELSE IF Closes(lines, k) THEN Append(AddTo(pieces, lines[k]), <<>>)
  ELSE AddTo(pieces, lines[k])

AllPieces(lines) ==
  FoldLeft(LAMBDA pieces, k : Take(lines, pieces, k), << <<>> >>, [k \in DOMAIN lines |-> k])

Pieces(lines) == Only(AllPieces(lines), Range(AllPieces(lines)) \ {<<>>})

(* Lines joined by line ends: a line without an end mark runs on into the  *)
(* first sentence of the next one.                                         *)
Glued(left, i) ==
  IF IsBlank(i) THEN left
  ELSE [sentences |-> IF left.open
                      THEN Front(left.sentences)
                             \o <<Last(left.sentences) \o Head(Line(i).sentences)>>
                             \o Tail(Line(i).sentences)
                      ELSE left.sentences \o Line(i).sentences,
        open |-> ~Line(i).ended]

GluedLines(piece) == FoldLeft(Glued, [sentences |-> <<>>, open |-> FALSE], piece)

ParagraphOf(section, piece) ==
  [place |-> <<section.page, section.title>>, sentences |-> GluedLines(piece).sentences]

ParsedText ==
  LaidOut(FlattenSeq([k \in DOMAIN sections |->
    [n \in DOMAIN Pieces(sections[k].lines) |->
       ParagraphOf(sections[k], Pieces(sections[k].lines)[n])]]))

-----------------------------------------------------------------------------
FileInit ==
  /\ ParsingInit
  /\ text = <<>> /\ stage = "parse" /\ next = 1
  /\ units = <<>> /\ todo = <<>> /\ current = <<>> /\ result = <<>>

ParseOn == stage = "parse" /\ ParsingStep /\ UNCHANGED vars

(* The chunker gets the parsed document. *)
HandOver ==
  /\ stage = "parse" /\ parsing = "parsed"
  /\ text' = ParsedText /\ stage' = "split"
  /\ UNCHANGED <<parsingVars, units, next, todo, current, result>>

ChunkOn == stage # "parse" /\ Next /\ UNCHANGED parsingVars

FileNext == ParseOn \/ HandOver \/ ChunkOn

FileSpec == FileInit /\ [][FileNext]_fileVars
=============================================================================
