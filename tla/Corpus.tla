------------------------------- MODULE Corpus -------------------------------
(***************************************************************************)
(* intake-to-corpus.ts: people fill a workbook of messages, items, phrases *)
(* and slang in Luganda; a script reads it once and adds what is new to    *)
(* three files, each loaded and written as a whole, one after the other,   *)
(* and writes the rows it could not place to a fourth.  It may stop        *)
(* between two files and is run again over what the last run left.         *)
(*                                                                         *)
(* A word stands for a normalized text (normalizeForMatch).                *)
(***************************************************************************)
EXTENDS Integers, Sequences, FiniteSets

CONSTANTS
  Lexemes,     \* what a filled cell says
  Unfilled,    \* an empty cell, or one that holds a marker
  Keywords,    \* the words of a scenario
  Placed,      \* the keywords of SCENARIO_TO_INTENT, longest first
  MaxEdits,    \* bound on edits of the workbook
  MaxRuns      \* bound on runs of the script

ASSUME CorpusAssumption ==
  /\ Unfilled \notin Lexemes \cup {"phrase", "SLANG"}
  /\ Placed \in Seq(Keywords) /\ MaxEdits \in Nat /\ MaxRuns \in Nat

Sheets == {"messages", "items", "phrases", "slang"}
Layouts == {"missing", "unlabelled", "plain", "titled"}

VARIABLES
  book,       \* the workbook: the layout of its sheets and their rows
  copy,       \* the workbook as the run read it
  phase,      \* what the run writes next, "idle" without one
  cases,      \* luganda.cases.json
  aliases,    \* luganda-aliases.json
  phrases,    \* intake.phrases.json
  review,     \* intake-review-needed.json: rows of the message sheet
  clean,      \* history: the last complete run read the workbook as it is
  edits, runs

corpusVars == <<book, copy, phase, cases, aliases, phrases, review, clean, edits, runs>>

MessageRows == [forms : {<<>>} \cup {<<x>> : x \in Lexemes} \cup {<<x, y>> : x, y \in Lexemes},
                scenario : SUBSET Keywords]
ItemRows == [canonical : Lexemes \cup {Unfilled}, names : {<<>>} \cup {<<x, y>> : x, y \in Lexemes}]
PhraseRows == [english : Lexemes \cup {Unfilled}, luganda : Lexemes \cup {Unfilled}]
SlangRows == [concept : Lexemes \cup {Unfilled}, category : {Unfilled, "town"}]
RowsOf == [messages |-> MessageRows, items |-> ItemRows, phrases |-> PhraseRows, slang |-> SlangRows]

CorpusInit ==
  /\ book = [layout |-> [s \in Sheets |-> "titled"], rows |-> [s \in Sheets |-> <<>>]]
  /\ copy = book
  /\ phase = "idle" /\ clean = FALSE
  /\ cases = <<>> /\ aliases = <<>> /\ phrases = <<>> /\ review = {}
  /\ edits = 0 /\ runs = 0

-----------------------------------------------------------------------------
\* readSheet and findColumnKey: a banner is skipped; where no row names the columns, the
\* first one is taken for the header and no column is found in it.
ReadSheet(b, s) == IF b.layout[s] \in {"plain", "titled"} THEN b.rows[s] ELSE <<>>

\* deriveIntent: the longest keyword of the scenario decides.
Derived(scenario) ==
  LET hits == {i \in DOMAIN Placed : Placed[i] \in scenario}
  IN IF hits = {} THEN Unfilled ELSE Placed[CHOOSE i \in hits : \A j \in hits : i <= j]

\* The rows at these places whose key is neither in the file nor at an earlier one of
\* them, in their order.
New(rows, places, keys, seen) ==
  LET first == {i \in places : keys[i] \notin seen /\ \A j \in places : j < i => keys[j] # keys[i]}
  IN [k \in 1..Cardinality(first) |->
        rows[CHOOSE i \in first : Cardinality({j \in first : j <= i}) = k]]

HasForm(r) == r.forms # <<>>
Mapped(r) == HasForm(r) /\ Derived(r.scenario) # Unfilled
Message(r) == Head(r.forms)

\* The rows that no intent fits.
Unplaced(b) ==
  LET rows == ReadSheet(b, "messages")
  IN {i \in DOMAIN rows : HasForm(rows[i]) /\ ~Mapped(rows[i])}

MaxId == LET ids == {0} \cup {cases[i].id : i \in DOMAIN cases} IN CHOOSE n \in ids : \A m \in ids : m <= n

\* The names of an item's cells, split at the commas: one pair each.
PairsOf(r) ==
  IF r.canonical = Unfilled THEN <<>>
  ELSE [k \in DOMAIN r.names |-> [alias |-> r.names[k], canonical |-> r.canonical]]
Pairs(rows) ==
  LET upTo[i \in 0..Len(rows)] == IF i = 0 THEN <<>> ELSE upTo[i - 1] \o PairsOf(rows[i])
  IN upTo[Len(rows)]

AliasAlone(p) == p.alias
AliasKey(p) == <<p.alias, p.canonical>>
PhraseKey(p) == <<p.category, p.english, p.luganda>>
PhraseKeys == {PhraseKey(phrases[i]) : i \in DOMAIN phrases}
\* A row of the slang sheet is looked up under its sheet, and stored under its category.
SlangKey(r) == <<"SLANG", r.concept, Unfilled>>

-----------------------------------------------------------------------------
\* The script.

\* It reads the workbook and leaves when there is none.
ReadBook ==
  /\ phase = "idle" /\ runs < MaxRuns
  /\ runs' = runs + 1 /\ copy' = book /\ phase' = "messages"
  /\ UNCHANGED <<book, cases, aliases, phrases, review, clean, edits>>

\* FULL MESSAGES: a row without a form is left out, one without an intent goes to the
\* review before it is looked up, a known one is skipped, the others are numbered on.
WriteCases ==
  /\ phase = "messages" /\ phase' = "items"
  /\ LET rows == ReadSheet(copy, "messages")
         places == {i \in DOMAIN rows : Mapped(rows[i])}
         new == New(rows, places, [i \in places |-> Message(rows[i])],
                    {cases[i].message : i \in DOMAIN cases})
         last == MaxId
     IN cases' = cases \o [k \in DOMAIN new |->
          [id |-> last + k, message |-> Message(new[k]), variants |-> Tail(new[k].forms),
           intent |-> Derived(new[k].scenario)]]
  /\ UNCHANGED <<book, copy, aliases, phrases, review, clean, edits, runs>>

WriteAliases ==
  /\ phase = "items" /\ phase' = "phrases"
  /\ LET pairs == Pairs(ReadSheet(copy, "items"))
     IN aliases' = aliases \o New(pairs, DOMAIN pairs, [i \in DOMAIN pairs |-> AliasKey(pairs[i])],
                                  {AliasKey(aliases[i]) : i \in DOMAIN aliases})
  /\ UNCHANGED <<book, copy, cases, phrases, review, clean, edits, runs>>

WritePhrases ==
  /\ phase = "phrases" /\ phase' = "slang"
  /\ LET rows == ReadSheet(copy, "phrases")
         places == {i \in DOMAIN rows : Unfilled \notin {rows[i].english, rows[i].luganda}}
         entries == [i \in DOMAIN rows |->
                       [category |-> "phrase", english |-> rows[i].english, luganda |-> rows[i].luganda]]
     IN phrases' = phrases \o New(entries, places, [i \in places |-> PhraseKey(entries[i])], PhraseKeys)
  /\ UNCHANGED <<book, copy, cases, aliases, review, clean, edits, runs>>

\* The phrases are written again, with the slang behind them.
WriteSlang ==
  /\ phase = "slang" /\ phase' = "review"
  /\ LET rows == ReadSheet(copy, "slang")
         places == {i \in DOMAIN rows : rows[i].concept # Unfilled}
         new == New(rows, places, [i \in places |-> SlangKey(rows[i])], PhraseKeys)
     IN phrases' = phrases \o [k \in DOMAIN new |->
          [category |-> IF new[k].category = Unfilled THEN "SLANG" ELSE new[k].category,
           english |-> new[k].concept, luganda |-> Unfilled]]
  /\ UNCHANGED <<book, copy, cases, aliases, review, clean, edits, runs>>

\* The review holds what this run could not place, and nothing of an earlier one.
WriteReview ==
  /\ phase = "review" /\ phase' = "idle"
  /\ review' = Unplaced(copy)
  /\ clean' = (copy = book)
  /\ UNCHANGED <<book, copy, cases, aliases, phrases, edits, runs>>

\* It stops: a file that does not parse, a directory that is not there, a key press.
Stops ==
  /\ phase # "idle" /\ phase' = "idle"
  /\ UNCHANGED <<book, copy, cases, aliases, phrases, review, clean, edits, runs>>

-----------------------------------------------------------------------------
\* The people who fill the workbook, and save it when they like.
Fill(s, rows) == book' = [book EXCEPT !.rows = [@ EXCEPT ![s] = rows]]
Edit ==
  /\ edits < MaxEdits /\ edits' = edits + 1
  /\ \E s \in Sheets :
       \/ \E r \in RowsOf[s] : Fill(s, Append(book.rows[s], r))
       \/ \E r \in RowsOf[s], i \in DOMAIN book.rows[s] :
            r # book.rows[s][i] /\ Fill(s, [book.rows[s] EXCEPT ![i] = r])
       \/ \E l \in Layouts : l # book.layout[s] /\ book' = [book EXCEPT !.layout = [@ EXCEPT ![s] = l]]
  /\ clean' = FALSE
  /\ UNCHANGED <<copy, phase, cases, aliases, phrases, review, runs>>

\* A case that was not approved is taken out of its file by hand, between two runs.
Reject ==
  /\ phase = "idle" /\ edits < MaxEdits /\ edits' = edits + 1
  /\ \E i \in DOMAIN cases :
       cases' = SubSeq(cases, 1, i - 1) \o SubSeq(cases, i + 1, Len(cases))
  /\ clean' = FALSE
  /\ UNCHANGED <<book, copy, phase, aliases, phrases, review, runs>>

CorpusNext ==
  \/ ReadBook \/ WriteCases \/ WriteAliases \/ WritePhrases \/ WriteSlang \/ WriteReview
  \/ Stops \/ Edit \/ Reject

CorpusSpec == CorpusInit /\ [][CorpusNext]_corpusVars

-----------------------------------------------------------------------------
\* What of a workbook is in the files.
CasesHave(b, unplaced) ==
  LET rows == ReadSheet(b, "messages")
  IN \A i \in DOMAIN rows : HasForm(rows[i]) =>
       i \in unplaced \/ \E k \in DOMAIN cases : cases[k].message = Message(rows[i])
AliasesHave(b) ==
  LET rows == ReadSheet(b, "items")
  IN \A i \in DOMAIN rows : rows[i].canonical # Unfilled =>
       \A n \in DOMAIN rows[i].names :
         \E k \in DOMAIN aliases : aliases[k] = [alias |-> rows[i].names[n], canonical |-> rows[i].canonical]
PhrasesHave(b) ==
  LET rows == ReadSheet(b, "phrases")
  IN \A i \in DOMAIN rows : Unfilled \notin {rows[i].english, rows[i].luganda} =>
       \E k \in DOMAIN phrases : phrases[k].english = rows[i].english /\ phrases[k].luganda = rows[i].luganda
SlangHave(b) ==
  LET rows == ReadSheet(b, "slang")
  IN \A i \in DOMAIN rows : rows[i].concept # Unfilled =>
       \E k \in DOMAIN phrases : phrases[k].english = rows[i].concept /\ phrases[k].luganda = Unfilled

CasesDiffer ==
  \A i, j \in DOMAIN cases : cases[i].message = cases[j].message \/ cases[i].id = cases[j].id => i = j
AliasesDiffer == \A i, j \in DOMAIN aliases : AliasKey(aliases[i]) = AliasKey(aliases[j]) => i = j
PhrasesDiffer ==
  \A i, j \in DOMAIN phrases :
    phrases[i].luganda # Unfilled /\ PhraseKey(phrases[i]) = PhraseKey(phrases[j]) => i = j

(* Whatever runs were stopped and whatever was edited meanwhile, no file but that of the    *)
(* slang says anything twice and no two cases share a number; and after a complete run over *)
(* the workbook as it is, each of its filled rows is in its file, or is up for review when  *)
(* no intent fits it.                                                                       *)
IngestedOnce ==
  /\ CasesDiffer /\ AliasesDiffer /\ PhrasesDiffer
  /\ clean => CasesHave(book, review) /\ AliasesHave(book) /\ PhrasesHave(book) /\ SlangHave(book)

-----------------------------------------------------------------------------
(* The inductive invariant behind it                                       *)

Cells == Lexemes \cup {Unfilled}
Cases == [id : Nat, message : Lexemes, variants : Seq(Lexemes), intent : Keywords]
AliasPairs == [alias : Lexemes, canonical : Lexemes]
Phrases == [category : {"phrase", "SLANG", "town"}, english : Lexemes, luganda : Cells]

IsBook(b) ==
  /\ b \in [layout : [Sheets -> Layouts], rows : [Sheets -> UNION {Seq(RowsOf[s]) : s \in Sheets}]]
  /\ \A s \in Sheets : b.rows[s] \in Seq(RowsOf[s])

CorpusTypeOK ==
  /\ IsBook(book) /\ IsBook(copy)
  /\ phase \in {"idle", "messages", "items", "phrases", "slang", "review"} /\ clean \in BOOLEAN
  /\ cases \in Seq(Cases) /\ aliases \in Seq(AliasPairs) /\ phrases \in Seq(Phrases)

\* What the run has written by now is in its file.
WrittenSoFar ==
  /\ phase \in {"items", "phrases", "slang", "review"} => CasesHave(copy, Unplaced(copy))
  /\ phase \in {"phrases", "slang", "review"} => AliasesHave(copy)
  /\ phase \in {"slang", "review"} => PhrasesHave(copy)
  /\ phase = "review" => SlangHave(copy)

CorpusIInv == CorpusTypeOK /\ WrittenSoFar /\ IngestedOnce

=============================================================================
