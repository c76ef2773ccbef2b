--------------------------- MODULE LegiProjection ---------------------------
(***************************************************************************)
(* The LEGI projection of an update run.  Archive members are articles,    *)
(* sections and text structures, in any order over many archives; each is  *)
(* projected in its own turn, and at the end of the run the hierarchy of   *)
(* the articles the run touched is completed from the sections and the     *)
(* structures known by then.  A run may die anywhere; the next one starts  *)
(* from the same archives and skips the members already accounted for.     *)
(* The run holds the update lock: ingest, backfill and embedding pass of   *)
(* one process follow each other.                                          *)
(***************************************************************************)
EXTENDS Integers, Sequences, FiniteSets, SequencesExt

CONSTANTS Articles,     \* documents: one version of one article
          Words,        \* lines of a text, titles of headings
          Member,       \* member name -> its parsed payload (see the three kinds below)
          Limit,        \* units of context and body a chunk may hold
          MaxFaults,    \* bound: crashes and unreadable archives
          None

(* What a parser lets through.  An article has a body (its lines), the     *)
(* hierarchy its own file gives, its links to sections and a date; a       *)
(* section version has a path that ends with its title and a validity; a   *)
(* structure is the flat list of the sections and articles of a text.      *)
IsArticle(p) ==
  /\ p.kind = "article" /\ p.id \in Articles /\ p.from \in Nat
  /\ p.body \in Seq(Words) \ {<<>>} /\ p.path \in Seq(Words)

IsSection(p) == p.kind = "section" /\ p.path \in Seq(Words) \ {<<>>} /\ p.from \in Nat

IsHeading(link) == link.tag = "section" /\ link.title # None

IsStructure(p) ==
  /\ p.kind = "structure"
  /\ p.links \in Seq(Range(p.links))
  /\ \A i \in DOMAIN p.links : IsHeading(p.links[i]) =>
       p.links[i].title \in Words /\ p.links[i].level \in {None} \union (Nat \ {0})

Members == DOMAIN Member

(* What is indexed of an article.                                         *)
Documents == [body : Seq(Words), path : Seq(Words), from : Nat, parts : Nat]

MembersAssumption ==
  \A m \in Members : IsArticle(Member[m]) \/ IsSection(Member[m]) \/ IsStructure(Member[m])
BoundsAssumption == Limit \in Nat /\ MaxFaults \in Nat
NoneAssumption == None \notin Documents

VARIABLES published,    \* members in the archives of the mirror
          recorded,     \* members with a complete row in ingest_member
          consumed,     \* members behind the cursor of a completed run
          document,     \* article -> [body, path, from, parts: its chunks], or None
          edges,        \* article -> its LIEN_SECTION_TA publisher edges
          chunks,       \* article -> <<[text, stamped]>>: text is [path, body]
          vectors,      \* article -> <<text the vector was computed from, or None>>
          sections,     \* SECTION_TA roots: set of [uid, from, to, path]
          structures,   \* TEXTELR roots: set of [text, links]
          run,          \* the run in progress: its archives' members and what it did
          faults

storeVars == <<document, edges, chunks, vectors, sections, structures>>
vars == <<published, recorded, consumed, storeVars, run, faults>>

Idle == [phase |-> "idle", batch |-> {}, todo |-> {}, touched |-> {}, skipped |-> FALSE,
         updates |-> <<>>]

Init ==
  /\ published = {} /\ recorded = {} /\ consumed = {}
  /\ document = [a \in Articles |-> None]
  /\ edges = [a \in Articles |-> {}]
  /\ chunks = [a \in Articles |-> <<>>] /\ vectors = [a \in Articles |-> <<>>]
  /\ sections = {} /\ structures = {}
  /\ run = Idle
  /\ faults = 0

(* The publisher adds an archive member to the mirror.                     *)
Publish(m) ==
  /\ m \notin published
  /\ published' = published \union {m}
  /\ UNCHANGED <<recorded, consumed, storeVars, run, faults>>

----------------------------------------------------------------------------
(* Candidates of the hierarchy backfill.                                   *)

(* text_struct_hierarchy_from_links: titles of the sections before an      *)
(* article, each cut back to the level it is at.                           *)
Stack(links) ==
  LET Cut(stack, level) == IF level = None \/ level - 1 >= Len(stack) THEN stack
                           ELSE SubSeq(stack, 1, level - 1)
      Push(stack, title) == IF stack # <<>> /\ Last(stack) = title THEN stack ELSE Append(stack, title)
      stacked[n \in 0..Len(links)] ==
        IF n = 0 THEN <<>>
        ELSE IF IsHeading(links[n]) THEN Push(Cut(stacked[n - 1], links[n].level), links[n].title)
        ELSE stacked[n - 1]
  IN stacked[Len(links)]

(* merge_hierarchy_with_overlap: the longest end of base that suffix begins*)
(* with is not repeated.                                                   *)
MergeOverlap(base, suffix) ==
  LET overlaps == {n \in 0..Len(suffix) : /\ n <= Len(base)
                                          /\ SubSeq(base, Len(base) - n + 1, Len(base)) = SubSeq(suffix, 1, n)}
      n == CHOOSE k \in overlaps : \A o \in overlaps : o <= k
  IN base \o SubSeq(suffix, n + 1, Len(suffix))

Deeper(section, links) ==
  LET text == MergeOverlap(Front(section.path), Stack(links))
  IN IF Len(text) > Len(section.path) THEN text ELSE section.path

(* The nearest section before a link of a structure; one that names none   *)
(* is passed over.                                                         *)
Nearest(links, i) ==
  LET named == {j \in 1..(i - 1) : links[j].tag = "section" /\ links[j].uid # None}
  IN {j \in named : \A k \in named : k <= j}

(* A section an article is linked to, and one that a structure places it   *)
(* under, with the date at which the section has to be valid.              *)
Anchor(link, from) == IF link.debut # None THEN link.debut ELSE from
Direct(edge, s, from) == [section |-> s, path |-> s.path, anchor |-> Anchor(edge, from)]
Fallback(links, i, s, from) ==
  [section |-> s, path |-> Deeper(s, SubSeq(links, 1, i - 1)), anchor |-> Anchor(links[i], from)]

(* Direct section edges first; an article without one falls back on the    *)
(* nearest preceding section of a structure that lists it.  The scope is   *)
(* what the run touched, or everything.                                    *)
Places(links, i, a, s) ==
  /\ links[i].tag = "article" /\ links[i].uid = a
  /\ \E j \in Nearest(links, i) : links[j].uid = s.uid

Candidates(a, all, touched) ==
  LET from == document[a].from
      InScope(s) == all \/ a \in touched \/ s.uid \in touched
  IN IF document[a] = None THEN {}
     ELSE IF edges[a] # {}
     THEN {Direct(p[1], p[2], from) :
             p \in {q \in edges[a] \X sections : q[2].uid = q[1].uid /\ InScope(q[2])}}
     ELSE UNION {{Fallback(t.links, p[1], p[2], from) :
                    p \in {q \in (DOMAIN t.links) \X sections :
                             Places(t.links, q[1], a, q[2]) /\ (InScope(q[2]) \/ t.text \in touched)}} :
                 t \in structures}

ValidAtAnchor(c) == /\ c.section.from = None \/ c.section.from <= c.anchor
                    /\ c.section.to = None \/ c.anchor < c.section.to

(* Of the versions in reach, one valid at the anchor, else the latest.     *)
Preferred(candidates) ==
  LET valid == {c \in candidates : ValidAtAnchor(c)}
      pool == IF valid # {} THEN valid ELSE candidates
  IN {c \in pool : \A o \in pool : o.section.from <= c.section.from}

----------------------------------------------------------------------------
(* The run.                                                                *)

Pending(a) == {i \in DOMAIN chunks[a] : ~chunks[a][i].stamped \/ vectors[a][i] = None}

Begin ==
  /\ run.phase = "idle"
  /\ published # consumed \/ \E a \in Articles : Pending(a) # {}
  /\ run' = [Idle EXCEPT !.phase = "ingest", !.batch = published \ consumed,
                         !.todo = published \ consumed]
  /\ UNCHANGED <<published, recorded, consumed, storeVars, faults>>

Take(m) == run.phase = "ingest" /\ m \in run.todo

Skip(m) ==
  /\ Take(m) /\ m \in recorded
  /\ run' = [run EXCEPT !.todo = @ \ {m}, !.skipped = TRUE]
  /\ UNCHANGED <<published, recorded, consumed, storeVars, faults>>

(* build_article_chunks: an article that is too long for one chunk is cut  *)
(* at line ends, as many lines as fit to a chunk.                          *)
Chunked(path, body) ==
  LET Put(done, line) ==
        IF done # <<>> /\ Len(path) + Len(Last(done)) + 1 <= Limit
        THEN Append(Front(done), Append(Last(done), line))
        ELSE Append(done, <<line>>)
      filled[n \in 0..Len(body)] == IF n = 0 THEN <<>> ELSE Put(filled[n - 1], body[n])
  IN IF Len(path) + Len(body) <= Limit THEN <<body>> ELSE filled[Len(body)]

(* Fault: a chunk keeps its vector as long as its body is the same.        *)
Upserted_ByBody(old, path, bodies) ==
  [i \in 1..Max({Len(old), Len(bodies)}) |->
     IF i > Len(bodies) THEN old[i]
     ELSE [text |-> [path |-> path, body |-> bodies[i]],
           stamped |-> i <= Len(old) /\ old[i].stamped /\ old[i].text.body = bodies[i]]]

(* A chunk whose text changes loses its stamp, not its vector; chunks past *)
(* the end of a body that became shorter stay.                             *)
Upserted(old, path, bodies) ==
  [i \in 1..Max({Len(old), Len(bodies)}) |->
     IF i > Len(bodies) THEN old[i]
     ELSE LET text == [path |-> path, body |-> bodies[i]]
          IN [text |-> text,
              stamped |-> i <= Len(old) /\ old[i].stamped /\ old[i].text = text]]

Widened(vecs, n) == [i \in 1..Max({Len(vecs), n}) |-> IF i <= Len(vecs) THEN vecs[i] ELSE None]

ProjectArticle(p) ==
  /\ p.kind = "article"
  /\ LET bodies == Chunked(p.path, p.body)
     IN /\ document' = [document EXCEPT ![p.id] = [body |-> p.body, path |-> p.path, from |-> p.from,
                                                  parts |-> Len(bodies)]]
        /\ chunks' = [chunks EXCEPT ![p.id] = Upserted(@, p.path, bodies)]
        /\ vectors' = [vectors EXCEPT ![p.id] = Widened(@, Len(bodies))]
  /\ edges' = [edges EXCEPT ![p.id] = @ \union p.links]
  /\ UNCHANGED <<sections, structures>>

(* A section version replaces the row of the same identifier and date; a   *)
(* structure has its payload in its key, so an older one stays.            *)
WithSection(p) ==
  {s \in sections : <<s.uid, s.from>> # <<p.id, p.from>>}
    \union {[uid |-> p.id, from |-> p.from, to |-> p.to, path |-> p.path]}

ProjectSection(p) ==
  /\ p.kind = "section"
  /\ sections' = WithSection(p)
  /\ UNCHANGED <<document, edges, chunks, vectors, structures>>

ProjectStructure(p) ==
  /\ p.kind = "structure"
  /\ structures' = structures \union {[text |-> p.id, links |-> p.links]}
  /\ UNCHANGED <<document, edges, chunks, vectors, sections>>

(* process_legi_archive_member, with its row, in one transaction.          *)
Process(m) ==
  /\ Take(m) /\ m \notin recorded
  /\ LET p == Member[m] IN ProjectArticle(p) \/ ProjectSection(p) \/ ProjectStructure(p)
  /\ recorded' = recorded \union {m}
  /\ run' = [run EXCEPT !.todo = @ \ {m}, !.touched = @ \union {Member[m].id}]
  /\ UNCHANGED <<published, consumed, faults>>

(* Fault: after a run that died the backfill stays scoped to the present   *)
(* one.                                                                    *)
FullResume_Never == FALSE

(* A run that skipped members completed another run's work: what that one  *)
(* touched is not known any more, so everything is looked at.              *)
FullResume == run.skipped

(* enriched_article_hierarchy_json: only a deeper hierarchy replaces.      *)
ReadHierarchy ==
  /\ run.phase = "ingest" /\ run.todo = {}
  /\ LET Reach(a) == Preferred(Candidates(a, FullResume, run.touched))
         listed == {a \in Articles : Reach(a) # {}}
     IN \E pick \in [listed -> UNION {Reach(a) : a \in listed}] :
          /\ \A a \in listed : pick[a] \in Reach(a)
          /\ LET deeper == {a \in listed : Len(pick[a].path) > Len(document[a].path)}
             IN run' = [run EXCEPT !.phase = "backfill",
                                   !.updates = [a \in deeper |-> pick[a].path]]
  /\ UNCHANGED <<published, recorded, consumed, storeVars, faults>>

(* Fault: a chunk whose context changed keeps its fingerprint.             *)
Rehung_Stamped(a, path) ==
  [i \in DOMAIN chunks[a] |-> IF i <= document[a].parts
                             THEN [chunks[a][i] EXCEPT !.text.path = path] ELSE chunks[a][i]]

(* Document, chunks, stamps and vectors of every update in one transaction.*)
Rehung(a, path) ==
  [i \in DOMAIN chunks[a] |->
     [text |-> IF i <= document[a].parts THEN [chunks[a][i].text EXCEPT !.path = path]
               ELSE chunks[a][i].text,
      stamped |-> FALSE]]

WriteHierarchy ==
  /\ run.phase = "backfill"
  /\ LET path == run.updates
         changed == DOMAIN path
     IN /\ document' = [a \in Articles |-> IF a \in changed THEN [document[a] EXCEPT !.path = path[a]]
                                           ELSE document[a]]
        /\ chunks' = [a \in Articles |-> IF a \in changed THEN Rehung(a, path[a]) ELSE chunks[a]]
        /\ vectors' = [a \in Articles |-> IF a \in changed THEN [i \in DOMAIN vectors[a] |-> None]
                                          ELSE vectors[a]]
  /\ run' = [run EXCEPT !.phase = "finish"]
  /\ UNCHANGED <<published, recorded, consumed, edges, sections, structures, faults>>

(* The run is completed: the archive cursor moves past its archives.       *)
Finish ==
  /\ run.phase = "finish"
  /\ consumed' = consumed \union run.batch
  /\ run' = [Idle EXCEPT !.phase = "embed"]
  /\ UNCHANGED <<published, recorded, storeVars, faults>>

(* The embedding pass of the same process, a document at a time.           *)
Embed(a) ==
  /\ run.phase = "embed" /\ Pending(a) # {}
  /\ vectors' = [vectors EXCEPT ![a] = [i \in DOMAIN @ |-> IF i \in Pending(a) THEN chunks[a][i].text
                                                            ELSE @[i]]]
  /\ chunks' = [chunks EXCEPT ![a] = [i \in DOMAIN @ |-> [@[i] EXCEPT !.stamped = TRUE]]]
  /\ UNCHANGED <<published, recorded, consumed, document, edges, sections, structures, run, faults>>

End ==
  /\ run.phase = "embed" /\ \A a \in Articles : Pending(a) = {}
  /\ run' = Idle
  /\ UNCHANGED <<published, recorded, consumed, storeVars, faults>>

(* The process dies, or an archive cannot be read and the run fails: then  *)
(* the backfill is left out and the cursor stays.                          *)
Stop ==
  /\ run.phase # "idle" /\ faults < MaxFaults
  /\ faults' = faults + 1
  /\ run' = Idle
  /\ UNCHANGED <<published, recorded, consumed, storeVars>>

----------------------------------------------------------------------------

RunStep ==
  \/ Begin \/ ReadHierarchy \/ WriteHierarchy \/ Finish \/ End
  \/ \E m \in Members : Skip(m) \/ Process(m)
  \/ \E a \in Articles : Embed(a)

Next == RunStep \/ Stop \/ \E m \in Members : Publish(m)

Spec == Init /\ [][Next]_vars

TypeOK ==
  /\ published \subseteq Members /\ recorded \subseteq published /\ consumed \subseteq recorded
  /\ \A a \in Articles : /\ document[a] = None <=> chunks[a] = <<>>
                         /\ Len(vectors[a]) = Len(chunks[a])
                         /\ \A i \in DOMAIN chunks[a] : chunks[a][i].stamped \in BOOLEAN
  /\ run.phase \in {"idle", "ingest", "backfill", "finish", "embed"}
  /\ run.todo \subseteq run.batch
  /\ faults \in 0..MaxFaults

(* What lexical and dense retrieval read: the chunks of a document carry   *)
(* all of its body, in order, and a stamped chunk, which the readiness gate*)
(* counts, has a vector computed from the text the chunk has now.          *)
IndexCarriesTheText ==
  \A a \in Articles : document[a] # None =>
    /\ FlattenSeq([i \in 1..document[a].parts |-> chunks[a][i].text.body]) = document[a].body
    /\ \A i \in DOMAIN chunks[a] : chunks[a][i].stamped => vectors[a][i] = chunks[a][i].text

(* Once every archive is behind the cursor, whatever the order of articles,*)
(* sections and structures and wherever earlier runs stopped, an article   *)
(* hangs as deep as what is known of its section: a backfill of everything *)
(* would change nothing.  (Stated for an article that hangs under one      *)
(* section: with several the scoped backfill looks only at the touched     *)
(* ones and may take one that is not valid at the article's date.)         *)
HierarchySettles ==
  run.phase \in {"embed", "idle"} /\ consumed = published =>
    \A a \in Articles :
      LET known == Candidates(a, TRUE, {})
      IN known # {} /\ (\A c, d \in known : c.section.uid = d.section.uid) =>
           \E c \in Preferred(known) : Len(c.path) <= Len(document[a].path)

(* A claim the code does not keep: a body that became shorter leaves its   *)
(* last chunks behind, embedded and searchable.                            *)
ChunksAreOfTheBody ==
  \A a \in Articles : document[a] # None => Len(chunks[a]) = document[a].parts
=============================================================================
