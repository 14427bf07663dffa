-------------------------- MODULE DocumentParsing --------------------------
(***************************************************************************)
(* DocumentProcessingService.process_file and the four parsers: how a file  *)
(* becomes sections with a page, a title and an order.  A file is a        *)
(* sequence of lines (of blocks, in a DOCX file); a line has sentences of  *)
(* words of a size, a blank line has none.                                 *)
(***************************************************************************)
EXTENDS FileValidation, TextLayout

CONSTANTS
  Files,          \* the files that are tried
  MaxPages,       \* settings.maximum_pdf_pages
  MaxExtracted    \* settings.maximum_extracted_characters

LineKinds == {"text", "heading", "fence", "tilde", "table"}

(* Sentences of words, of which there are none only in a blank line. *)
LineTexts == Seq(Seq(Nat \ {0}) \ {<<>>})

(* The pages of a file are in order.  Fences and the headings of Markdown  *)
(* have characters: their marks, and what a heading's pattern asks for.    *)
ASSUME FilesAreShaped ==
  /\ {MaxPages, MaxExtracted} \subseteq Nat \ {0}
  /\ \A f \in Files :
       /\ f.type \in {"pdf", "docx", "md", "txt"}
       /\ f.members \in Seq(Members) /\ f.pages \in Nat /\ f.unreadable \subseteq 1 .. f.pages
       /\ f.lines \in Seq({f.lines[i] : i \in DOMAIN f.lines})
       /\ \A i \in DOMAIN f.lines :
            /\ f.lines[i].kind \in LineKinds
            /\ f.lines[i].sentences \in LineTexts /\ f.lines[i].ended \in BOOLEAN
            /\ f.lines[i].page \in (IF f.type = "pdf" THEN 1 .. f.pages ELSE {0})
            /\ \A j \in DOMAIN f.lines : i < j => f.lines[i].page <= f.lines[j].page
            /\ \/ f.lines[i].kind \in {"fence", "tilde"}
               \/ f.type = "md" /\ f.lines[i].kind = "heading"
               => f.lines[i].sentences # <<>>

VARIABLES
  file,        \* the file that is processed
  parsing,     \* where that is, or the error that has ended it
  at,          \* the line, or the page, that is next
  title,       \* current_title
  buffer,      \* the lines since the last section
  inCode,      \* whether a code block is open
  sections,    \* the sections so far
  characters   \* extracted_characters

parsingVars == <<file, parsing, at, title, buffer, inCode, sections, characters>>

NoTitle == "no title"

Line(i) == file.lines[i]

IsBlank(i) == Line(i).sentences = <<>>

Length(i) == IF IsBlank(i) THEN 0 ELSE ParagraphSize(Line(i))

RawSize(lines) == FoldSeq(LAMBDA i, sum : sum + Length(i) + 1, 0, lines)

AllLines == [i \in DOMAIN file.lines |-> i]

(* make_section: nothing of a text without a letter.  None is 0 as a page. *)
MakeSection(lines, page, heading, order) ==
  IF \A i \in Range(lines) : IsBlank(i) THEN <<>>
  ELSE <<[lines |-> lines, page |-> page, title |-> heading, order |-> order]>>

Flushed == sections \o MakeSection(buffer, 0, title, Len(sections))

Ends(error) == parsing' = error

-----------------------------------------------------------------------------
ParsingInit ==
  /\ file \in Files
  /\ parsing = "validate" /\ at = 1 /\ title = NoTitle
  /\ buffer = <<>> /\ inCode = FALSE /\ sections = <<>> /\ characters = 0

Validate ==
  /\ parsing = "validate"
  /\ IF ~IsValid(file.faults) THEN Ends(Rejection(file.faults))
     ELSE IF "known" \in file.faults THEN Ends("DuplicateDocumentError")
     ELSE parsing' = "open"
  /\ UNCHANGED <<file, at, title, buffer, inCode, sections, characters>>

(* _read_text, of TXT and Markdown files: both limits are met piece by     *)
(* piece, so that of two faults either may be met first.                   *)
OpenText ==
  /\ parsing = "open" /\ file.type \in {"txt", "md"}
  /\ \/ "undecodable" \in file.faults /\ Ends("EncodingError")
     \/ RawSize(AllLines) > MaxExtracted /\ Ends("ExtractedTextLimitError")
     \/ /\ "undecodable" \notin file.faults /\ RawSize(AllLines) <= MaxExtracted
        /\ parsing' = "read"
  /\ UNCHANGED <<file, at, title, buffer, inCode, sections, characters>>

OpenPdf ==
  /\ parsing = "open" /\ file.type = "pdf"
  /\ parsing' = IF "malformed" \in file.faults THEN "CorruptDocumentError"
                ELSE IF "encrypted" \in file.faults THEN "EncryptedDocumentError"
                ELSE IF file.pages > MaxPages THEN "PdfPageLimitError"
                ELSE "read"
  /\ UNCHANGED <<file, at, title, buffer, inCode, sections, characters>>

OpenDocx ==
  /\ parsing = "open" /\ file.type = "docx"
  /\ parsing' = IF ~ArchiveIsSafe(file.members) \/ "malformed" \in file.faults
                THEN "DocxArchiveSafetyError" ELSE "read"
  /\ UNCHANGED <<file, at, title, buffer, inCode, sections, characters>>

-----------------------------------------------------------------------------
Reading(type) == parsing = "read" /\ file.type = type

(* A text file is one section. *)
ReadText ==
  /\ Reading("txt")
  /\ sections' = MakeSection(AllLines, 0, NoTitle, 0)
  /\ parsing' = IF sections' = <<>> THEN "NoExtractableTextError" ELSE "check"
  /\ UNCHANGED <<file, at, title, buffer, inCode, characters>>

AtLine == at \in DOMAIN file.lines

TakeLine == at' = at + 1 /\ buffer' = Append(buffer, at)

MarkdownFence ==
  /\ Reading("md") /\ AtLine
  /\ Line(at).kind \in {"fence", "tilde"}
  /\ inCode' = ~inCode
  /\ TakeLine
  /\ UNCHANGED <<file, parsing, title, sections, characters>>

(* Wrong variant: a line of code may be a heading. *)
LooksLikeHeading(line) == line.kind = "heading"

StartsSection(line) == line.kind = "heading" /\ ~inCode

MarkdownHeading ==
  /\ Reading("md") /\ AtLine
  /\ StartsSection(Line(at))
  /\ sections' = Flushed /\ buffer' = <<at>>
  /\ title' = Line(at).title /\ at' = at + 1
  /\ UNCHANGED <<file, parsing, inCode, characters>>

MarkdownLine ==
  /\ Reading("md") /\ AtLine
  /\ Line(at).kind \notin {"fence", "tilde"} /\ ~StartsSection(Line(at))
  /\ TakeLine
  /\ UNCHANGED <<file, parsing, title, inCode, sections, characters>>

(* A paragraph or a table of a DOCX file; empty ones are passed over.  The *)
(* section before a heading is flushed before its text is counted.         *)
DocxBlock ==
  /\ Reading("docx") /\ AtLine
  /\ LET heads  == Line(at).kind = "heading" /\ ~IsBlank(at)
         before == IF heads THEN <<>> ELSE buffer
     IN  /\ sections' = IF heads THEN Flushed ELSE sections
         /\ title' = IF heads THEN Line(at).title ELSE title
         /\ buffer' = IF IsBlank(at) THEN before ELSE Append(before, at)
  /\ characters' = characters + Length(at)
  /\ at' = at + 1
  /\ parsing' = IF characters' > MaxExtracted THEN "ExtractedTextLimitError" ELSE parsing
  /\ UNCHANGED <<file, inCode>>

EndOfLines ==
  /\ parsing = "read" /\ file.type \in {"md", "docx"} /\ ~AtLine
  /\ sections' = Flushed /\ buffer' = <<>>
  /\ parsing' = IF sections' = <<>> THEN "NoExtractableTextError" ELSE "check"
  /\ UNCHANGED <<file, at, title, inCode, characters>>

(* The text of a page that cannot be extracted is empty. *)
PageLines ==
  Only(AllLines, {i \in DOMAIN file.lines : Line(i).page = at /\ at \notin file.unreadable})

PdfPage ==
  /\ Reading("pdf") /\ at <= file.pages
  /\ characters' = characters + RawSize(PageLines)
  /\ IF characters' > MaxExtracted
     THEN Ends("ExtractedTextLimitError") /\ UNCHANGED <<at, sections>>
     ELSE /\ sections' = sections \o MakeSection(PageLines, at, NoTitle, at - 1)
          /\ at' = at + 1 /\ UNCHANGED parsing
  /\ UNCHANGED <<file, title, buffer, inCode>>

EndOfPages ==
  /\ Reading("pdf") /\ at > file.pages
  /\ parsing' = IF sections = <<>> THEN "NoExtractableTextError" ELSE "check"
  /\ UNCHANGED <<file, at, title, buffer, inCode, sections, characters>>

(* The characters of normalised sections: blank lines are one, and none at *)
(* the ends.  The check counts what the parser of DOCX files does not, the *)
(* line ends.                                                              *)
Gaps(lines) ==
  Cardinality({k \in 2 .. Len(lines) :
    /\ IsBlank(lines[k]) /\ ~IsBlank(lines[k - 1])
    /\ \E l \in k .. Len(lines) : ~IsBlank(lines[l])})

SectionSize(section) ==
  RawSize(SelectSeq(section.lines, LAMBDA i : ~IsBlank(i))) + Gaps(section.lines) - 1

CheckExtracted ==
  /\ parsing = "check"
  /\ parsing' = IF Sum(sections, SectionSize) > MaxExtracted THEN "ExtractedTextLimitError" ELSE "parsed"
  /\ UNCHANGED <<file, at, title, buffer, inCode, sections, characters>>

ParsingStep ==
  \/ Validate \/ OpenText \/ OpenPdf \/ OpenDocx
  \/ ReadText \/ MarkdownFence \/ MarkdownHeading \/ MarkdownLine
  \/ DocxBlock \/ EndOfLines \/ PdfPage \/ EndOfPages
  \/ CheckExtracted

-----------------------------------------------------------------------------
(* The last heading at or above a line.  A line of Markdown is code after  *)
(* an odd number of fences of either kind.                                 *)
IsHeading(i) ==
  /\ Line(i).kind = "heading" /\ ~IsBlank(i)
  /\ \/ file.type = "docx"
     \/ /\ file.type = "md"
        /\ Cardinality({j \in 1 .. i : Line(j).kind \in {"fence", "tilde"}}) % 2 = 0

TitleAt(i) ==
  LET above == {j \in 1 .. i : IsHeading(j)}
  IN  IF above = {} THEN NoTitle
      ELSE Line(CHOOSE j \in above : \A k \in above : k <= j).title

(* Every line that could be read is in a section, and in the order of the  *)
(* file, so that none is in two.  The lines of a section stand under its   *)
(* title and on its page in the file: what a citation says of a chunk is   *)
(* true of the file.                                                       *)
EveryLineIsInItsSection ==
  parsing = "parsed" =>
    /\ \A i \in DOMAIN file.lines :
         ~IsBlank(i) /\ Line(i).page \notin file.unreadable =>
           \E section \in Range(sections) : i \in Range(section.lines)
    /\ \A k, l \in DOMAIN sections :
         \A m \in DOMAIN sections[k].lines, n \in DOMAIN sections[l].lines :
           k < l \/ (k = l /\ m < n) => sections[k].lines[m] < sections[l].lines[n]
    /\ \A section \in Range(sections) : \A i \in Range(section.lines) :
         /\ section.title = TitleAt(i) /\ section.page = Line(i).page
         /\ Line(i).page \notin file.unreadable
    /\ \A k, l \in DOMAIN sections : k < l => sections[k].order < sections[l].order
=============================================================================
