------------------------------ MODULE Aliases ------------------------------
(***************************************************************************)
(* How the word that a trader uses is matched to an item, and how the      *)
(* match is learnt.  The parser may match a line by itself, from the items *)
(* that were read with the message and the aliases that come with the      *)
(* program; a line that it left is matched by layers: the names of the     *)
(* items, the business's table of aliases, the global aliases, those of    *)
(* the program, and a measure of similarity.  The tables are read as they  *)
(* are then, the items as they were.  A committed draft records its words; *)
(* an alias that enough businesses share becomes global, on a connection   *)
(* of its own that sees what was committed when it looks.                  *)
(*                                                                         *)
(* An item is a business and a name; a word may itself be a name.          *)
(***************************************************************************)
EXTENDS Integers, FiniteSets

CONSTANTS
  Traders,     \* businesses
  Names,       \* normalized names of items
  Terms,       \* words of messages, some of them names
  Seeds,       \* the aliases that come with the program: pairs of a word and a name
  Alike,       \* pairs of a word and a name that are similar enough
  Threshold,   \* PROMOTION_THRESHOLD
  Lines,       \* lines of messages that are handled at a time
  Page,        \* items that are read with a message, perPage
  MaxStock,    \* bound on items
  None         \* no item, no word, no business

Items == Traders \X Names
Table == [Traders \X Terms -> Items \cup {None}]

ASSUME AliasAssumption ==
  /\ Seeds \subseteq Terms \X Names /\ Alike \subseteq Terms \X Names
  /\ Threshold \in Nat /\ Page \in Nat /\ MaxStock \in Nat /\ None \notin Items

VARIABLES
  stock,      \* the items that exist
  inline,     \* aliases that were entered with an item: item and word
  learnt,     \* item_aliases: business, word -> its item
  global,     \* the global rows: word -> some business's item
  line        \* line -> a word of a message, the inventory it was read with, its match

aliasRows == <<stock, inline, learnt, global>>
aliasVars == <<aliasRows, line>>

\* taught, a ghost: the item of the inventory that the business had taught when it was read.
Heard(t, w, inv, taught) ==
  [read |-> TRUE, shop |-> t, word |-> w, inv |-> inv, taught |-> taught, by |-> "none", item |-> None]
Matched(by, i) ==
  [read |-> FALSE, shop |-> None, word |-> None, inv |-> {}, taught |-> None, by |-> by, item |-> i]
Unmatched == Matched("none", None)

AliasesInit ==
  /\ stock = {} /\ inline = {}
  /\ learnt = [x \in Traders \X Terms |-> None]
  /\ global = [w \in Terms |-> None]
  /\ line = [l \in Lines |-> Unmatched]

Own(t) == {i \in stock : i[1] = t}

\* createItem, with the aliases of the form.  An item has no delete, and here no new name.
AddStock(t, n, words) ==
  /\ <<t, n>> \notin stock /\ Cardinality(stock) < MaxStock
  /\ stock' = stock \cup {<<t, n>>}
  /\ inline' = inline \cup {<<<<t, n>>, w>> : w \in words}
  /\ UNCHANGED <<learnt, global, line>>

\* seedAliases, a script: the aliases of the program as global rows, each with an item
\* of that name, of whichever business.
SeedGlobal(w, i) ==
  /\ <<w, i[2]>> \in Seeds /\ i \in stock
  /\ global[w] = None /\ global' = [global EXCEPT ![w] = i]
  /\ UNCHANGED <<stock, inline, learnt, line>>

-----------------------------------------------------------------------------
\* The layers, each with the items it may give.
Exact(inv, w) == {i \in inv : i[2] = w}
InlineAlias(inv, w) == {i \in inv : <<i, w>> \in inline}
ByName(inv, w) == IF Exact(inv, w) # {} THEN Exact(inv, w) ELSE InlineAlias(inv, w)
SeedAlias(inv, w) == {i \in inv : <<w, i[2]>> \in Seeds}

\* Mutant: the global row comes first.
GlobalRowFirst(t, w) == IF global[w] # None THEN global[w] ELSE learnt[<<t, w>>]

\* The business's row comes before the global one, and what it names must be in the
\* inventory that was read.
AliasRow(t, w) == IF learnt[<<t, w>>] # None THEN learnt[<<t, w>>] ELSE global[w]
FromRow(t, w, inv) == {AliasRow(t, w)} \cap inv

\* The measure is taken in the database, over the items as they are now.
Similar(t, w) == {i \in Own(t) : <<w, i[2]>> \in Alike}

\* matchItemSync: names and the aliases of the program, no table.
matchItemSync(inv, w) == IF ByName(inv, w) # {} THEN ByName(inv, w) ELSE SeedAlias(inv, w)

\* matchItemFull: the first layer that gives one.
matchItemFull(t, w, inv) ==
  IF ByName(inv, w) # {} THEN [by |-> "name", items |-> ByName(inv, w)]
  ELSE IF FromRow(t, w, inv) # {} THEN [by |-> "row", items |-> FromRow(t, w, inv)]
  ELSE IF SeedAlias(inv, w) # {} THEN [by |-> "seed", items |-> SeedAlias(inv, w)]
  ELSE [by |-> "similar", items |-> Similar(t, w)]

\* What a line has when the parser is done with it: the id that the language model
\* named, which nothing looks up; if the model gave no answer, the match of a line that
\* is the word and nothing else (buildLine); or no item.
Given(w, inv) ==
  {[by |-> "model", items |-> {i}] : i \in Items}
    \cup {[by |-> "parser", items |-> matchItemSync(inv, w)], [by |-> "none", items |-> {}]}

\* enrichMatchedItems: a line that has an item keeps it.
enrichMatchedItems(t, w, inv, given) == IF given.items # {} THEN given ELSE matchItemFull(t, w, inv)

-----------------------------------------------------------------------------
\* A message arrives: a page of the inventory is read before it is parsed, of as many
\* items as there are or of perPage.
Taught(t, w, inv) == IF learnt[<<t, w>>] \in inv THEN learnt[<<t, w>>] ELSE None
Hear(l, t, w, inv) ==
  /\ ~line[l].read
  /\ inv \subseteq Own(t) /\ (inv = Own(t) \/ Cardinality(inv) = Page)
  /\ Cardinality(inv) <= Page
  /\ line' = [line EXCEPT ![l] = Heard(t, w, inv, Taught(t, w, inv))]
  /\ UNCHANGED aliasRows

\* The parser, then enrichMatchedItems with the rows as they are now.
MatchLine(l) ==
  LET x == line[l]
  IN /\ x.read
     /\ \E given \in Given(x.word, x.inv) :
          LET m == enrichMatchedItems(x.shop, x.word, x.inv, given)
          IN \/ m.items = {} /\ line' = [line EXCEPT ![l] = Unmatched]
             \/ \E i \in m.items : line' = [line EXCEPT ![l] = Matched(m.by, i)]
     /\ UNCHANGED aliasRows

\* recordAliasMatch: a new row takes any item that exists, of whichever business; a row
\* that is there counts one more and keeps its item.
Learn(t, w, items) ==
  \E i \in IF learnt[<<t, w>>] = None THEN items \cap stock ELSE {learnt[<<t, w>>]} :
    learnt' = [learnt EXCEPT ![<<t, w>>] = i]

\* A draft's commit, in one transaction: its lines are matched now unless they have an
\* item, and every line that has one is learnt.  Only the lines of a sale and the first
\* of a purchase are looked up among the items of the business before.
CommitDraft(t, w) ==
  /\ Learn(t, w, UNION {enrichMatchedItems(t, w, Own(t), given).items : given \in Given(w, Own(t))})
  /\ UNCHANGED <<stock, inline, global, line>>

\* promoteAliasIfThreshold, at some time after a draft was committed: only the first
\* global row of a word names its item.
Confirmed(w, i) == {t \in Traders : learnt[<<t, w>>] = i}
Promote(w, i) ==
  /\ i \in stock /\ \E t \in Traders : learnt[<<t, w>>] # None
  /\ global' = IF Cardinality(Confirmed(w, i)) >= Threshold
               THEN [global EXCEPT ![w] = IF @ = None THEN i ELSE @] ELSE global
  /\ UNCHANGED <<stock, inline, learnt, line>>

AliasesNext ==
  \/ \E t \in Traders : \E n \in Names, words \in SUBSET Terms : AddStock(t, n, words)
  \/ \E l \in Lines : MatchLine(l) \/ \E t \in Traders, w \in Terms, inv \in SUBSET stock : Hear(l, t, w, inv)
  \/ \E t \in Traders, w \in Terms : CommitDraft(t, w)
  \/ \E w \in Terms, i \in Items : Promote(w, i)
  \/ \E w \in Terms, i \in Items : SeedGlobal(w, i)

AliasesSpec == AliasesInit /\ [][AliasesNext]_aliasVars

-----------------------------------------------------------------------------
\* A match is an item of the business, and the one that it had taught if a layer below
\* the names gave it.
MatchedFirst(x, m) ==
  m.by \notin {"none", "model"} =>
    /\ m.item[1] = x.shop
    /\ (m.by \notin {"name", "parser"} /\ x.taught # None) => m.item = x.taught

\* Whatever other businesses teach the program, whichever items the global rows name and
\* whatever is taught or added between the reading of the inventory and the match: a
\* line without an item of the language model's is matched to an item of the business,
\* and if no name decides and the parser left it, what the business had taught comes
\* before every alias that is global, seeded or similar (matchItemFull).
LearntComesFirst ==
  [][\A l \in Lines : line[l].read /\ line'[l] # line[l] => MatchedFirst(line[l], line'[l])]_aliasVars

-----------------------------------------------------------------------------
(* The inductive invariant behind it                                       *)

Ways == {"none", "model", "parser", "name", "row", "seed", "similar"}

AliasesTypeOK ==
  /\ stock \subseteq Items /\ learnt \in Table
  /\ line \in [Lines -> [read : BOOLEAN, shop : Traders \cup {None}, word : Terms \cup {None},
                         inv : SUBSET Items, taught : Items \cup {None}, by : Ways, item : Items \cup {None}]]

\* A line that was read is of a business and a word, its inventory holds items of that
\* business, and what was taught when it was read is still what the business's row says.
ReadStands ==
  \A l \in Lines :
    LET x == line[l]
    IN x.read => /\ x.shop \in Traders /\ x.word \in Terms
                 /\ \A i \in x.inv : i[1] = x.shop
                 /\ x.taught # None => x.taught \in x.inv /\ learnt[<<x.shop, x.word>>] = x.taught

AliasesIInv == AliasesTypeOK /\ ReadStands

=============================================================================
