------------------------------ MODULE Parsing ------------------------------
(***************************************************************************)
(* parseDocument: a file whose bytes fit its declared type becomes a       *)
(* sequence of headings and paragraphs.  A file is its lines (TXT, MD),    *)
(* the elements of its HTML (DOCX) or its pages (PDF), each with the token *)
(* counts of its sentences; a block names the lines it was made of.  One   *)
(* action is one turn of a parser's loop.                                  *)
(***************************************************************************)
EXTENDS Integers, Sequences, FiniteSetsExt, SequencesExt

CONSTANTS
  Files,    \* files that may be uploaded
  MaxPages  \* pages of a PDF that are read

(* Bytes: the sample that is sniffed, and what follows it.  The sample of  *)
(* a sound text may end inside a character.                                *)
Heads == {"text", "cut", "nul", "broken", "pdf", "zip"}

(* What the parser of a type tells apart: a page is "low" if it has little *)
(* text or none, and what no parser reads is "other".                      *)
Kinds(type) ==
  CASE type = "TXT" -> {"text", "blank", "spaces"}
    [] type = "MD" -> {"text", "blank", "spaces", "heading", "fence", "tilde"}
    [] type = "DOCX" -> {"text", "heading", "other"}
    [] OTHER -> {"text", "low", "blank"}
LineKinds == UNION {Kinds(type) : type \in {"TXT", "MD", "DOCX", "PDF"}}

(* Text has tokens, and so has every sentence of it.                       *)
Line ==
  {l \in [kind : LineKinds, level : 0..6, tokens : Nat, sentences : Seq(Nat \ {0})] :
     /\ l.level # 0 <=> l.kind = "heading"
     /\ l.kind \in {"blank", "spaces"} => l.sentences = <<>>
     /\ l.sentences # <<>> => l.tokens # 0}
File ==
  {f \in [type : {"TXT", "MD", "DOCX", "PDF"}, head : Heads, sound : BOOLEAN, lines : Seq(Line)] :
     /\ \A i \in 1..Len(f.lines) : f.lines[i].kind \in Kinds(f.type)
     /\ f.type = "PDF" =>
          /\ f.lines # <<>>
          /\ \A i \in 1..Len(f.lines) : f.lines[i].kind = "text" => f.lines[i].sentences # <<>>}

ASSUME FilesAssumption == Files \subseteq File /\ MaxPages \in Nat \ {0}

VARIABLES
  file,     \* the file that is parsed
  at,       \* the line its loop is at
  buffer,   \* lines of the paragraph that is open
  fenced,   \* inFence
  blocks,   \* blocks emitted
  warnings,
  outcome   \* "sniff", "read", "rejected", "parsed", and "chunking" when taken on

parseVars == <<file, at, buffer, fenced, blocks, warnings, outcome>>

ParseInit ==
  /\ file \in Files /\ at = 1 /\ buffer = <<>> /\ fenced = FALSE
  /\ blocks = <<>> /\ warnings = {} /\ outcome = "sniff"

Kind == file.lines[at].kind

(* contentMatchesType                                                      *)
ContentMatchesType ==
  CASE file.type = "PDF" -> file.head = "pdf"
    [] file.type = "DOCX" -> file.head = "zip"
    [] OTHER -> file.head = "text"

(* decodeUtf8 of the whole file.                                           *)
Decodes == file.type \in {"TXT", "MD"} => file.sound

(* The libraries of the other formats may read a damaged file, or not.     *)
Open ==
  /\ outcome = "sniff"
  /\ outcome' \in IF ~ContentMatchesType \/ ~Decodes THEN {"rejected"}
                 ELSE IF file.sound THEN {"read"} ELSE {"read", "rejected"}
  /\ UNCHANGED <<file, at, buffer, fenced, blocks, warnings>>

-----------------------------------------------------------------------------
(* A block of these lines, unless it would be blank.                       *)
BlockOf(lines, level, page) == [lines |-> lines, level |-> level, page |-> page]
HasText(i) == file.lines[i].sentences # <<>>
Closed ==
  IF \E i \in ToSet(buffer) : HasText(i) THEN Append(blocks, BlockOf(buffer, 0, 1)) ELSE blocks

Turn(type, last) ==
  /\ outcome = "read" /\ file.type = type /\ at <= last
  /\ at' = at + 1
  /\ UNCHANGED <<file, outcome>>

Keep == buffer' = Append(buffer, at) /\ UNCHANGED blocks
Flush == blocks' = Closed /\ buffer' = <<>>

(* Only an empty line separates paragraphs, one of spaces does not.        *)
TxtLine ==
  /\ Turn("TXT", Len(file.lines))
  /\ IF Kind = "blank" THEN Flush ELSE Keep
  /\ UNCHANGED <<fenced, warnings>>

(* Either mark opens and closes code, in which nothing else is structure.  *)
MarkdownFence ==
  /\ Turn("MD", Len(file.lines)) /\ Kind \in {"fence", "tilde"}
  /\ fenced' = ~fenced /\ Keep
  /\ UNCHANGED warnings

(* Variant: a heading ends code.                                           *)
MarkdownLineUnfenced ==
  /\ Turn("MD", Len(file.lines)) /\ Kind \notin {"fence", "tilde"}
  /\ CASE Kind = "heading" ->
            blocks' = Append(Closed, BlockOf(<<at>>, file.lines[at].level, 1)) /\ buffer' = <<>>
       [] ~fenced /\ Kind \in {"blank", "spaces"} -> Flush
       [] OTHER -> Keep
  /\ UNCHANGED <<fenced, warnings>>

MarkdownLine ==
  /\ Turn("MD", Len(file.lines)) /\ Kind \notin {"fence", "tilde"}
  /\ CASE ~fenced /\ Kind = "heading" ->
            blocks' = Append(Closed, BlockOf(<<at>>, file.lines[at].level, 1)) /\ buffer' = <<>>
       [] ~fenced /\ Kind \in {"blank", "spaces"} -> Flush
       [] OTHER -> Keep
  /\ UNCHANGED <<fenced, warnings>>

(* Headings and paragraphs; what is in neither, as a list item, is left.   *)
DocxElement ==
  /\ Turn("DOCX", Len(file.lines))
  /\ blocks' = IF Kind \in {"heading", "text"} /\ HasText(at)
                 THEN Append(blocks, BlockOf(<<at>>, file.lines[at].level, 1)) ELSE blocks
  /\ UNCHANGED <<buffer, fenced, warnings>>

PagesToScan == Min({Len(file.lines), MaxPages})

PdfPage ==
  /\ Turn("PDF", PagesToScan)
  /\ blocks' = IF HasText(at) THEN Append(blocks, BlockOf(<<at>>, 0, at)) ELSE blocks
  /\ warnings' = IF Kind \in {"low", "blank"} THEN warnings \cup {<<"low text", at>>} ELSE warnings
  /\ UNCHANGED <<buffer, fenced>>

(* The end: the last paragraph, and warnings about the whole.              *)
EndOfFile ==
  /\ outcome = "read" /\ at > (IF file.type = "PDF" THEN PagesToScan ELSE Len(file.lines))
  /\ Flush
  /\ warnings' = warnings
       \cup (IF file.type # "PDF" /\ Closed = <<>> THEN {<<"no text", 0>>} ELSE {})
       \cup (IF file.type = "PDF" /\ PagesToScan < Len(file.lines) THEN {<<"cut off", 0>>} ELSE {})
       \cup (IF file.type = "PDF" /\ Cardinality(warnings) = PagesToScan /\ at > 1 THEN {<<"image only", 0>>} ELSE {})
  /\ outcome' = "parsed"
  /\ UNCHANGED <<file, at, fenced>>

ParseNext ==
  \/ Open
  \/ TxtLine \/ MarkdownFence \/ MarkdownLine \/ DocxElement \/ PdfPage
  \/ EndOfFile

-----------------------------------------------------------------------------
(* Lines that hold text the parser is for.                                 *)
Readable ==
  {i \in 1..Len(file.lines) :
     /\ HasText(i)
     /\ file.type = "DOCX" => file.lines[i].kind # "other"
     /\ file.type = "PDF" => i <= MaxPages}

(* Between the marks of a code block.  With marks of both kinds in one     *)
(* file, a tilde in backtick code would count as code's end.               *)
Marks == {i \in 1..Len(file.lines) : file.lines[i].kind \in {"fence", "tilde"}}
OneMark == Cardinality({file.lines[i].kind : i \in Marks}) <= 1
InCode(i) == Cardinality({m \in Marks : m < i}) % 2 = 1

(* Where a paragraph cannot go on.                                         *)
Breaks(i) ==
  CASE file.type = "TXT" -> file.lines[i].kind = "blank"
    [] file.type = "MD" -> ~InCode(i) /\ file.lines[i].kind \in {"blank", "spaces", "heading"}
    [] OTHER -> TRUE

(* The blocks of a parsed file hold each of its readable lines once and in *)
(* order, on its own page; a line is a heading block of its own exactly if *)
(* it is a heading outside code, and no paragraph runs across a break.  A  *)
(* file that yields nothing is not without a warning.                      *)
BlocksFollowFile ==
  outcome = "parsed" /\ OneMark =>
    LET of(b) == ToSet(blocks[b].lines)
    IN /\ blocks = <<>> => warnings # {}
       /\ \A i \in Readable : Cardinality({b \in 1..Len(blocks) : i \in of(b)}) = 1
       /\ \A b, c \in 1..Len(blocks) : b < c => \A i \in of(b), j \in of(c) : i < j
       /\ \A b \in 1..Len(blocks) :
            /\ \A i, j \in of(b) : i < j => \A k \in i..j : ~Breaks(k)
            /\ blocks[b].level # 0 <=> \E i \in of(b) :
                 file.lines[i].kind = "heading" /\ (file.type = "MD" => ~InCode(i))
            /\ blocks[b].page = IF file.type = "PDF" THEN Min(of(b)) ELSE 1
=============================================================================
