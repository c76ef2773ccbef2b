------------------------------ MODULE Chunking ------------------------------
(***************************************************************************)
(* From one archive member to the rows that are searched                   *)
(* (jurisearch-ingest/src/juri, src/legi; jurisearch-pipeline ingest/juri; *)
(* jurisearch-storage projection/decisions): the streaming reader collects *)
(* the text of BLOC_TEXTUEL/CONTENU and of the summaries, the canonical    *)
(* body is cut in chunks under a budget, the record is validated and its   *)
(* chunks are stored, all in the transaction of the member's batch.        *)
(*                                                                         *)
(* A character of the body is its rank among the letters read, or a Space, *)
(* or a Line end.  What the tags say beyond being a block, an inline       *)
(* element or a summary is left out, and so are the scalar metadata: they  *)
(* are there and valid, or one of them is not.                             *)
(***************************************************************************)
EXTENDS Integers, Sequences, SequencesExt, FiniteSetsExt

CONSTANTS
  Pieces,          \* the texts between two tags, TRUE for a letter
  ContextLengths,  \* the lengths a context line can have, 0 for none
  MaxChars,        \* JURI_DECISION_CHUNK_MAX_CHARS, and LEGI's
  MaxEvents,       \* bound: events of one document
  MaxDepth         \* bound: elements open at a time

VARIABLES
  member,     \* the member: its family, its root, its metadata, its context
  stack,      \* the elements open in the reader
  body,       \* raw.body
  summary,    \* raw.current_summary's text and whether there is one
  summaries,  \* raw.summaries
  events,     \* events read
  status,     \* "reading", then what the ledger says of the member
  chunks,     \* the chunks built, in order
  read,       \* history: for each letter of the body, what came before it
  pending     \* history: what separates the next letter from the last one

chunkingVars == <<member, stack, body, summary, summaries, events, status, chunks, read,
                  pending>>

BoundsAssumption ==
  /\ Pieces \subseteq Seq(BOOLEAN) /\ ContextLengths \subseteq Nat
  /\ MaxChars \in Nat /\ MaxChars >= 2
  /\ MaxEvents \in Nat /\ MaxDepth \in Nat

Space == 0
Line == -1
Texts == Seq(Int)
Block == "p"
Inline == "i"
Contenu == "CONTENU"
Summary == "SCT"

(* Only a decision's root can be the other family's.                       *)
Members ==
  {m \in [family: {"decision", "article"}, root: {"own", "other", "unsupported"},
          metadata: BOOLEAN, context: ContextLengths] :
     m.root = "other" => m.family = "decision"}

Pending == [apart : BOOLEAN, block : BOOLEAN]

(* A fold, as FoldLeft, by a step that is a function of <<state, element>>. *)
Folded(step, base, seq) ==
  LET folded[n \in 0 .. Len(seq)] == IF n = 0 THEN base ELSE step[<<folded[n - 1], seq[n]>>]
  IN  folded[Len(seq)]

(***************************************************************************)
(* The reader's text.                                                      *)
(***************************************************************************)
IsBlank(c) == c \in {Space, Line}

TrimEnd(s) == SubSeq(s, 1, Max({0} \union {i \in DOMAIN s : ~IsBlank(s[i])}))

(* append_xml_content, one character.                                      *)
Kept(text, c) ==
  IF c = Space /\ (text = <<>> \/ IsBlank(Last(text))) THEN text ELSE Append(text, c)

Appended(text, value) == Folded([p \in Texts \X Int |-> Kept(p[1], p[2])], text, value)

(* Fault: the end of a block leaves no line end.                           *)
Closed_TrimsOnly(text) == TrimEnd(text)

(* append_block_boundary: the trailing spaces go, one line end comes.      *)
Closed(text) ==
  LET trimmed == SubSeq(text, 1, Max({0} \union {i \in DOMAIN text : text[i] # Space}))
  IN  IF trimmed # <<>> /\ Last(trimmed) # Line THEN Append(trimmed, Line) ELSE trimmed

(* collapse_ws, on a text of one line.                                     *)
Collapsed(text) == TrimEnd(Appended(<<>>, text))

InBody(open) == Contains(open, Contenu)

(***************************************************************************)
(* The canonical body.                                                     *)
(***************************************************************************)
Lines(text) ==
  Folded([p \in (Seq(Texts) \ {<<>>}) \X Int |->
            IF p[2] = Line THEN Append(p[1], <<>>)
            ELSE Append(Front(p[1]), Append(Last(p[1]), p[2]))],
         << <<>> >>, text)

JoinedBy(parts, separator) ==
  Folded([p \in Texts \X Texts |-> IF p[1] = <<>> THEN p[2] ELSE p[1] \o separator \o p[2]],
         <<>>, parts)

Joined(parts) == JoinedBy(parts, <<Line>>)

Paragraphs(text) ==
  Folded([p \in Seq(Texts) \X Texts |->
            IF Collapsed(p[2]) = <<>> THEN p[1] ELSE Append(p[1], Collapsed(p[2]))],
         <<>>, Lines(text))

(* finish_body for a decision; an article's body is only trimmed.          *)
Canonical(text) ==
  IF member.family = "decision" THEN Joined(Paragraphs(text)) ELSE TrimEnd(text)

(***************************************************************************)
(* The chunks.  split_body packs the paragraphs of a decision while the    *)
(* body stays under the budget and cuts one that is longer.                *)
(***************************************************************************)
Boundaries == {"sommaire", "paragraph", "hard_split", "alinea", "article"}
Piece(text, boundary) == [text |-> text, boundary |-> boundary]
Packing == [pieces : Seq([text : Texts, boundary : Boundaries]), current : Texts]
Unpacked == [pieces |-> <<>>, current |-> <<>>]

Flushed(state) ==
  IF state.current = <<>> THEN state
  ELSE [pieces |-> Append(state.pieces, Piece(state.current, "paragraph")), current |-> <<>>]

HardSplit(text) ==
  [i \in 1 .. (Len(text) + MaxChars - 1) \div MaxChars |->
     Piece(SubSeq(text, (i - 1) * MaxChars + 1, Min({i * MaxChars, Len(text)})), "hard_split")]

(* Fault: a paragraph that is cut goes before the text that was being      *)
(* packed.                                                                 *)
Packed_KeepsCurrent(state, paragraph) ==
  LET room == IF Len(Joined(<<state.current, paragraph>>)) > MaxChars
              THEN Flushed(state) ELSE state
  IN  IF Len(paragraph) > MaxChars
      THEN [state EXCEPT !.pieces = @ \o HardSplit(paragraph)]
      ELSE [room EXCEPT !.current = Joined(<<@, paragraph>>)]

(* Fault: paragraphs are packed without what stands between them.          *)
Packed_Unseparated(state, paragraph) ==
  LET room == IF Len(state.current) + Len(paragraph) > MaxChars THEN Flushed(state) ELSE state
  IN  IF Len(paragraph) > MaxChars
      THEN [Flushed(state) EXCEPT !.pieces = @ \o HardSplit(paragraph)]
      ELSE [room EXCEPT !.current = Joined(<<@, paragraph>>)]

Packed(state, paragraph) ==
  LET room == IF Len(Joined(<<state.current, paragraph>>)) > MaxChars
              THEN Flushed(state) ELSE state
  IN  IF Len(paragraph) > MaxChars
      THEN [Flushed(state) EXCEPT !.pieces = @ \o HardSplit(paragraph)]
      ELSE [room EXCEPT !.current = Joined(<<@, paragraph>>)]

SplitBody(text) ==
  Flushed(Folded([p \in Packing \X Texts |-> Packed(p[1], p[2])], Unpacked, Paragraphs(text))).pieces

(* build_decision_chunks: the summaries in one chunk, then the body.       *)
DecisionChunks(text) ==
  LET sommaire == JoinedBy(summaries, <<Line, Line>>)
  IN  (IF sommaire = <<>> THEN <<>> ELSE <<Piece(sommaire, "sommaire")>>) \o SplitBody(text)

(* contextualized_article_body, by its length.                             *)
Contextualized(text) == Len(text) + IF member.context = 0 THEN 0 ELSE member.context + 2

(* The loop of build_article_chunks: an alinea that would pass the budget  *)
(* starts a new chunk, and one that is too long alone is a chunk.          *)
Grouped(state, unit) ==
  IF state.current # <<>> /\ Contextualized(Joined(<<state.current, unit>>)) > MaxChars
  THEN [pieces |-> Append(state.pieces, Piece(state.current, "alinea")), current |-> unit]
  ELSE [state EXCEPT !.current = Joined(<<@, unit>>)]

ArticleChunks(text) ==
  LET units == Paragraphs(text)
      groups == Folded([p \in Packing \X Texts |-> Grouped(p[1], p[2])], Unpacked, units)
  IN  IF Contextualized(text) <= MaxChars \/ Len(units) <= 1 \/ groups.pieces = <<>>
      THEN <<Piece(text, "article")>>
      ELSE Append(groups.pieces, Piece(groups.current, "alinea"))

Chunks(text) ==
  IF member.family = "decision" THEN DecisionChunks(text) ELSE ArticleChunks(text)

(* CanonicalDecision::validate (CanonicalDocument::validate is alike), of  *)
(* what the text decides: a blank body or a blank chunk is refused.        *)
ValidChunk(chunk) == TrimEnd(chunk.text) # <<>>

IsValid(text, built) ==
  TrimEnd(text) # <<>> /\ \A i \in DOMAIN built : ValidChunk(built[i])

(***************************************************************************)
(* One event of the XML reader.                                            *)
(***************************************************************************)
Init ==
  /\ member \in Members
  /\ stack = <<>>
  /\ body = <<>>
  /\ summary = [open |-> FALSE, text |-> <<>>]
  /\ summaries = <<>>
  /\ events = 0
  /\ status = "reading"
  /\ chunks = <<>>
  /\ read = <<>>
  /\ pending = [apart |-> FALSE, block |-> FALSE]

Event ==
  /\ status = "reading" /\ events < MaxEvents
  /\ member.root = "own"
  /\ events' = events + 1
  /\ UNCHANGED <<member, status, chunks>>

(* An opening tag.  It ends no paragraph, whatever the element.            *)
Start(name) ==
  /\ Event
  /\ Len(stack) < MaxDepth
  /\ (name \in {Contenu, Summary}) <=> (stack = <<>>)
  /\ name = Summary => member.family = "decision"
  /\ stack' = Append(stack, name)
  /\ summary' = IF name = Summary THEN [open |-> TRUE, text |-> <<>>] ELSE summary
  /\ pending' = [pending EXCEPT !.block = @ \/ (name = Block /\ InBody(stack))]
  /\ UNCHANGED <<body, summaries, read>>

(* A closing tag, or a tag that closes itself (Empty).                     *)
EndsBlock(name, open) ==
  IF name = Block /\ InBody(open)
  THEN /\ body' = Closed(body)
       /\ pending' = [apart |-> TRUE, block |-> TRUE]
  ELSE UNCHANGED <<body, pending>>

Empty(name) ==
  /\ Event
  /\ name \in {Block, Inline} /\ stack # <<>>
  /\ EndsBlock(name, stack)
  /\ UNCHANGED <<stack, summary, summaries, read>>

End ==
  /\ Event
  /\ stack # <<>>
  /\ EndsBlock(Last(stack), stack)
  /\ IF Last(stack) = Summary
     THEN /\ summaries' = IF Collapsed(summary.text) = <<>> THEN summaries
                          ELSE Append(summaries, Collapsed(summary.text))
          /\ summary' = [open |-> FALSE, text |-> <<>>]
     ELSE UNCHANGED <<summary, summaries>>
  /\ stack' = Front(stack)
  /\ UNCHANGED read

(* A letter that goes to the body, with what separates it from the one     *)
(* before; and a space.                                                    *)
Readings == [body : Texts, read : Seq(Pending), pending : Pending]

Taken(seen, letter) ==
  IF letter
  THEN [body |-> Kept(seen.body, Len(seen.read) + 1), read |-> Append(seen.read, seen.pending),
        pending |-> [apart |-> FALSE, block |-> FALSE]]
  ELSE [seen EXCEPT !.body = Kept(@, Space), !.pending.apart = TRUE]

TakenAll(piece) ==
  Folded([p \in Readings \X BOOLEAN |-> Taken(p[1], p[2])],
         [body |-> body, read |-> read, pending |-> pending], piece)

(* assign_text: to the body anywhere under CONTENU, to a summary only      *)
(* directly under its tag.                                                 *)
Text(piece) ==
  /\ Event
  /\ stack # <<>>
  /\ IF InBody(stack)
     THEN /\ body' = TakenAll(piece).body
          /\ read' = TakenAll(piece).read
          /\ pending' = TakenAll(piece).pending
          /\ UNCHANGED summary
     ELSE /\ summary' = IF Last(stack) = Summary
                        THEN [summary EXCEPT !.text =
                                @ \o [i \in 1 .. Len(piece) |-> IF piece[i] THEN 1 ELSE Space]]
                        ELSE summary
          /\ UNCHANGED <<body, read, pending>>
  /\ UNCHANGED <<stack, summaries>>

(***************************************************************************)
(* The end of the document: parse_juri_xml's verdict, the member's row in  *)
(* the ledger and, for a record, its projection, which aborts the run when *)
(* the record does not validate (an article is validated by its parser).   *)
(***************************************************************************)
ArticleVerdict(text) ==
  IF ~member.metadata THEN "Failed"
  ELSE IF TrimEnd(text) = <<>> THEN "Skipped"
  ELSE IF IsValid(text, Chunks(text)) THEN "Inserted" ELSE "Failed"

(* Fault: a record is given to the projection without being validated.     *)
DecisionVerdict_Unchecked(text) ==
  IF member.root = "other" \/ ~member.metadata THEN "Failed"
  ELSE IF IsValid(text, Chunks(text)) THEN "Inserted" ELSE "Aborted"

DecisionVerdict(text) ==
  IF member.root = "other" \/ ~member.metadata THEN "Failed"
  ELSE IF TrimEnd(text) = <<>> THEN "Skipped"
  ELSE IF IsValid(text, Chunks(text)) THEN "Inserted" ELSE "Aborted"

Verdict(text) ==
  IF member.root = "unsupported" THEN "Skipped"
  ELSE IF member.family = "decision" THEN DecisionVerdict(text) ELSE ArticleVerdict(text)

Eof ==
  /\ status = "reading" /\ stack = <<>>
  /\ status' = Verdict(Canonical(body))
  /\ chunks' = IF status' = "Inserted" THEN Chunks(Canonical(body)) ELSE <<>>
  /\ body' = Canonical(body)
  /\ UNCHANGED <<member, stack, summary, summaries, events, read, pending>>

Next ==
  \/ \E name \in {Block, Inline, Contenu, Summary} : Start(name)
  \/ \E name \in {Block, Inline} : Empty(name)
  \/ End
  \/ \E piece \in Pieces : Text(piece)
  \/ Eof

Spec == Init /\ [][Next]_chunkingVars

(***************************************************************************)
(* Properties.                                                             *)
(***************************************************************************)
TypeOK ==
  /\ member \in Members
  /\ stack \in Seq({Block, Inline, Contenu, Summary})
  /\ body \in Texts
  /\ status \in {"reading", "Inserted", "Skipped", "Failed", "Aborted"}
  /\ \A i \in DOMAIN chunks : chunks[i].boundary \in Boundaries

BodyChunks == IF chunks # <<>> /\ Head(chunks).boundary = "sommaire" THEN Tail(chunks) ELSE chunks

Stored == FlattenSeq([i \in DOMAIN BodyChunks |-> BodyChunks[i].text])

(* The body chunks of a stored record hold every letter of its text, once  *)
(* and in order; two letters the source separates by a space, a line break *)
(* or the end of a block are not run together, and a space only appears    *)
(* where the source has one (append_xml_content, append_block_boundary,    *)
(* finish_body, split_body, build_article_chunks).                         *)
TextSurvives ==
  status = "Inserted" =>
    /\ {Stored[i] : i \in DOMAIN Stored} \ {Space, Line} = DOMAIN read
    /\ \A i, j \in DOMAIN Stored :
         i < j /\ ~IsBlank(Stored[i]) /\ ~IsBlank(Stored[j]) => Stored[i] < Stored[j]
    /\ \A k \in DOMAIN BodyChunks :
         LET text == BodyChunks[k].text
         IN  \A i \in 2 .. Len(text) :
               /\ ~IsBlank(text[i - 1]) /\ ~IsBlank(text[i]) => ~read[text[i]].apart
               /\ IsBlank(text[i - 1]) /\ ~IsBlank(text[i]) => read[text[i]].apart

(* A record the parser lets through passes the validation of the           *)
(* projection: no member's text can abort the run of its whole archive     *)
(* (into_decision, insert_decision_documents_with_statements).             *)
NeverAborts == status # "Aborted"

(* A chunk of a decision's body is under the budget, and an article's      *)
(* chunk is, with its context, unless it is one alinea that cannot be cut. *)
WithinBudget ==
  \A i \in DOMAIN BodyChunks :
    LET text == BodyChunks[i].text
    IN  IF member.family = "decision" THEN Len(text) <= MaxChars
        ELSE Contextualized(text) <= MaxChars \/ Line \notin Range(text)

(* jurisearch-ingest/src/juri/xml.rs:33 says a block tag's start ends a    *)
(* paragraph as its end does: the text before a block is not joined to the *)
(* text in it.                                                             *)
BlocksStandApart ==
  \A k \in DOMAIN BodyChunks :
    LET text == BodyChunks[k].text
    IN  \A i \in 2 .. Len(text) :
          ~IsBlank(text[i - 1]) /\ ~IsBlank(text[i]) => ~read[text[i]].block

(* jurisearch-ingest/src/juri/chunks.rs:7 says the decision budget mirrors *)
(* the article's, so that chunks stay inside the endpoint's: with its      *)
(* context, a decision's chunk is under it.                                *)
MirrorsArticleBudget ==
  member.family = "decision" =>
    \A i \in DOMAIN chunks : Contextualized(chunks[i].text) <= MaxChars
=============================================================================
