---------------------------- MODULE MCAnswering -----------------------------
(* Files of up to MaxLines lines (one less for DOCX, whose headings and     *)
(* paragraphs chunking tells apart best), of every kind that their parser  *)
(* and a limit of two tokens tell apart, and some with unsound bytes.      *)
EXTENDS Answering

CONSTANT MaxLines

Plain(kind, n, s) == [kind |-> kind, level |-> 0, tokens |-> n, sentences |-> s]
Heading(l) == [kind |-> "heading", level |-> l, tokens |-> 2, sentences |-> <<2>>]
Short == Plain("text", 1, <<1>>)
Long == Plain("text", 4, <<1, 1, 3>>)
Blank == Plain("blank", 0, <<>>)

Lines(type) ==
  CASE type = "TXT" -> {Short, Blank, Plain("spaces", 0, <<>>)}
    [] type = "MD" -> {Short, Blank, Heading(1), Plain("fence", 1, <<1>>), Plain("tilde", 1, <<1>>)}
    [] type = "DOCX" -> {Short, Long, Heading(1), Heading(2), Plain("other", 1, <<1>>)}
    [] OTHER -> {Long, Blank, Plain("low", 1, <<1>>)}

Named(type) == CASE type = "PDF" -> "pdf" [] type = "DOCX" -> "zip" [] OTHER -> "text"

Longest(type) == IF type = "DOCX" THEN MaxLines - 1 ELSE MaxLines

MCFiles ==
  UNION {[type : {t}, head : {Named(t)}, sound : {TRUE},
          lines : UNION {[1..n -> Lines(t)] : n \in 1..Longest(t)}] : t \in {"TXT", "MD", "DOCX", "PDF"}}
  \cup [type : {"TXT", "PDF"}, head : Heads, sound : BOOLEAN, lines : {<<Short>>}]
=============================================================================
