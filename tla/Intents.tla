------------------------------- MODULE Intents -------------------------------
(***************************************************************************)
(* How a message becomes an intent, and how the intent is resolved: the    *)
(* answer of the language model, or of the rules that stand in for it, is  *)
(* scored line by line against the inventory, and the most cautious line   *)
(* decides whether the message is recorded, recorded with ten minutes to   *)
(* undo it, or asked about.                                                *)
(*                                                                         *)
(* Scores and confidences are thousandths.  A text is reduced to what the  *)
(* rules read out of it.                                                   *)
(***************************************************************************)
EXTENDS Integers, Sequences, FiniteSetsExt

CONSTANTS
  Qtys,         \* quantities a line may state
  Prices,       \* prices a line may state
  Stocks,       \* quantities in stock
  Typicals,     \* usual prices of the item
  Confidences   \* confidences of the model

Null == -1

ASSUME IntentAssumption ==
  /\ Qtys \subseteq Int \ {Null} /\ Prices \subseteq Int \ {Null}
  /\ Stocks \subseteq Nat /\ Typicals \subseteq Nat \ {0} /\ Confidences \subseteq 0..1000

VARIABLE
  intent   \* the last message: what was understood of it and its resolution

-----------------------------------------------------------------------------
\* What is understood

Actions == {"sale", "purchase", "stock_check", "add_item", "report", "customer_add", "supplier_add",
            "expense", "marketing", "receipt", "subscription", "payment_received", "credit_sale",
            "debt_inquiry", "unknown"}

RESOLUTIONS == {"commit", "confirm_default", "clarify", "reject"}

\* A line: the item it was matched to is in the inventory that was sent along,
\* is some other id, or is missing.
Line(matched, qty, unit, total, anomaly) ==
  [matched |-> matched, qty |-> qty, unitPrice |-> unit, totalPrice |-> total, anomaly |-> anomaly]

\* normalizeLineItem, legacyLineFromTopLevel: what is no integer is null.
ModelLines ==
  [matched : {"listed", "unlisted", "none"}, qty : Qtys \cup {Null}, unitPrice : Prices \cup {Null},
   totalPrice : Prices \cup {Null}, anomaly : BOOLEAN]

Parsed(action, items, confidence, resolution) ==
  [action |-> action, items |-> items, confidence |-> confidence, resolution |-> resolution]

FALLBACK_INTENT == Parsed("unknown", <<>>, 0, "clarify")

\* coerceSubscriptionIntent: a message that speaks of plans is no unknown one.
coerceSubscriptionIntent(p, mentions) ==
  IF mentions /\ p.action = "unknown" THEN Parsed("subscription", p.items, Max({p.confidence, 900}), "commit") ELSE p

\* What the model may answer: safeParseJSON rejects what has no known action.
ModelAnswers(lines) ==
  {Parsed(a, <<l>>, c, r) : a \in {"sale", "purchase"}, l \in lines, c \in Confidences, r \in {"commit"}}
    \cup {Parsed(a, <<>>, c, r) : a \in Actions, c \in Confidences, r \in RESOLUTIONS}

\* buildLine: one price is a total if the message says so, or if it is closer to
\* the usual price that way; the unit price is rounded.
Round(a, b) == (2 * a + b) \div (2 * b)
Distance(a, b) == IF a > b THEN a - b ELSE b - a
AsTotal(price, qty, typical, saysTotal, saysEach) ==
  saysTotal \/ (~saysEach /\ typical # Null /\ Distance(Round(price, qty), typical) < Distance(price, typical))
BuiltLine(matched, qty, price, typical, saysTotal, saysEach) ==
  LET priced == price \notin {Null, 0} /\ qty \notin {Null, 0}
      total == priced /\ AsTotal(price, qty, typical, saysTotal, saysEach)
      unit == IF ~priced THEN Null ELSE IF total THEN Round(price, qty) ELSE price
      sum == IF ~priced THEN Null ELSE IF total THEN price ELSE price * qty
  IN Line(matched, qty, unit, sum,
          unit \notin {Null, 0} /\ typical # Null /\ 10 * Distance(unit, typical) > 4 * typical)

\* parseSaleOrPurchase
RuleParse(action, items) ==
  LET doubtful == \E i \in DOMAIN items :
                    items[i].unitPrice \in {Null, 0} \/ items[i].totalPrice \in {Null, 0} \/ items[i].anomaly
  IN Parsed(action, items, IF doubtful THEN 700 ELSE 920, IF doubtful THEN "clarify" ELSE "commit")

\* deterministicIntent: the first rule that the words meet; an expense without an
\* amount is asked about.
RuleActions == {"subscription", "report", "receipt", "marketing", "supplier_add", "customer_add", "expense"}
RuleAnswers(lines) ==
  {Parsed(a, <<>>, 900, "commit") : a \in RuleActions} \cup {Parsed("expense", <<>>, 900, "clarify")}
    \cup {Parsed("stock_check", <<>>, 950, "commit")}
    \cup {RuleParse(a, <<l>>) : a \in {"sale", "purchase"}, l \in lines}

\* parseIntent, callClaudeWithTimeout: the strong rules come before the model; two
\* unreadable answers, an error or a timeout leave the message to the rules; without
\* a key nothing is understood.
Understood(modelLines, ruleLines) ==
  ModelAnswers(modelLines) \cup RuleAnswers(ruleLines)
    \cup {coerceSubscriptionIntent(FALLBACK_INTENT, mentions) : mentions \in BOOLEAN}

-----------------------------------------------------------------------------
\* How it is resolved

\* lineContext: what the inventory says of the item a line was matched to.
LineContext(line, stock, typical) ==
  IF line.matched = "listed" THEN [itemExists |-> TRUE, qtyInStock |-> stock, typicalPrice |-> typical]
  ELSE [itemExists |-> FALSE, qtyInStock |-> Null, typicalPrice |-> Null]

\* The total stands in for a unit price that is missing.
StatedPrice(line) == IF line.unitPrice # Null THEN line.unitPrice ELSE line.totalPrice

itemExistsScore(line) == IF line.matched # "none" THEN 1000 ELSE 0

qtyPlausibleScore(line, ctx) ==
  IF line.qty <= 0 \/ ctx.qtyInStock = Null THEN 500
  ELSE IF 10 * line.qty <= 12 * ctx.qtyInStock THEN 1000
  ELSE IF line.qty <= 2 * ctx.qtyInStock THEN 300 ELSE 0

\* How far the price is from the usual one, in hundredths of it at most.
Within(line, ctx, percent) ==
  100 * Distance(StatedPrice(line), ctx.typicalPrice) <= percent * ctx.typicalPrice

priceInBandScore(line, ctx) ==
  IF StatedPrice(line) = Null THEN 0
  ELSE IF ctx.typicalPrice = Null THEN 500
  ELSE IF Within(line, ctx, 25) THEN 1000
  ELSE IF Within(line, ctx, 40) THEN 600 ELSE 0

Consistent(line) == Distance(line.qty * line.unitPrice, line.totalPrice) <= 1
arithmeticScore(line) ==
  IF Null \in {line.qty, line.unitPrice, line.totalPrice} THEN 500
  ELSE IF Consistent(line) THEN 1000 ELSE 0

\* structuralScore
LineScore(line, ctx) ==
  (itemExistsScore(line) + qtyPlausibleScore(line, ctx) + priceInBandScore(line, ctx) + arithmeticScore(line)) \div 4
Anomalous(line, ctx) ==
  line.anomaly \/ (ctx.typicalPrice # Null /\ StatedPrice(line) # Null /\ ~Within(line, ctx, 40))

\* Mutant: a line is recorded at once although it is only probable.
LowThreshold(line, ctx, confidence) ==
  LET combined == Min({confidence, LineScore(line, ctx)})
      clear == ~Anomalous(line, ctx) /\ ctx.itemExists /\ line.qty # Null /\ StatedPrice(line) # Null
  IN IF clear /\ combined >= 750 THEN "commit"
     ELSE IF clear /\ combined >= 600 THEN "confirm_default" ELSE "clarify"

LineResolution(line, ctx, confidence) ==
  LET combined == Min({confidence, LineScore(line, ctx)})
      clear == ~Anomalous(line, ctx) /\ ctx.itemExists /\ line.qty # Null /\ StatedPrice(line) # Null
  IN IF clear /\ combined >= 850 THEN "commit"
     ELSE IF clear /\ combined >= 600 THEN "confirm_default" ELSE "clarify"

Caution == [commit |-> 0, confirm_default |-> 1, clarify |-> 2, reject |-> 3]

\* resolveIntent: the lines decide over a sale or a purchase, whatever the model
\* wanted; anything else keeps the model's wish unless it was unsure.
resolveIntent(p, stock, typical) ==
  IF p.action \notin {"sale", "purchase"}
  THEN IF p.confidence >= 600 THEN p.resolution ELSE "clarify"
  ELSE LET found == {LineResolution(p.items[i], LineContext(p.items[i], stock, typical), p.confidence) :
                       i \in DOMAIN p.items}
       IN CHOOSE r \in found \cup {"commit"} : \A q \in found \cup {"commit"} : Caution[q] <= Caution[r]

-----------------------------------------------------------------------------
\* One message after another.

NoIntent == [parsed |-> FALLBACK_INTENT, stock |-> 0, typical |-> Null, resolution |-> "clarify"]
IntentsInit == intent = NoIntent

\* handleIncomingMessage asks parseIntent with the inventory it read.
Understand(p, stock, typical) ==
  intent' = [parsed |-> p, stock |-> stock, typical |-> typical, resolution |-> resolveIntent(p, stock, typical)]

\* A second line of a message may spoil the first, or come before it.
Extended(p) ==
  {p} \cup {Parsed(p.action, q, p.confidence, p.resolution) :
              q \in {<<l>> \o p.items : l \in {Line("listed", 1, 100, 100, FALSE), Line("none", 1, 100, 100, FALSE)}}}

FromModel ==
  \E p \in ModelAnswers(ModelLines) : \E q \in IF p.items = <<>> THEN {p} ELSE Extended(p) :
    \E s \in Stocks, t \in Typicals \cup {Null} : Understand(q, s, t)
\* parseQty, numberTokens: the rules read digits, and no sign.
FromRules ==
  \E t \in Typicals \cup {Null} : \E m \in {"listed", "none"}, n \in (Qtys \cap Nat) \cup {Null},
     p \in (Prices \cap Nat) \cup {Null}, total \in BOOLEAN, each \in BOOLEAN :
       \E s \in Stocks : \E q \in RuleAnswers({BuiltLine(m, n, p, IF m = "listed" THEN t ELSE Null, total, each)}) :
         Understand(q, s, t)
FromNothing ==
  \E mentions \in BOOLEAN : Understand(coerceSubscriptionIntent(FALLBACK_INTENT, mentions), 0, Null)

IntentsNext == intent = NoIntent /\ (FromModel \/ FromRules \/ FromNothing)
IntentsSpec == IntentsInit /\ [][IntentsNext]_intent

-----------------------------------------------------------------------------
\* A line that may be recorded at once, by the policy the model is told: it names a
\* listed item, says how many and at what price, the price is no more than 40 % off
\* the usual one, the quantity no more than a fifth over the stock, and the sum right.
Backed(line, stock, typical) ==
  /\ line.matched = "listed" /\ line.qty # Null /\ StatedPrice(line) # Null
  /\ typical # Null => 100 * Distance(StatedPrice(line), typical) <= 40 * typical
  /\ line.qty > 0 => 10 * line.qty <= 12 * stock
  /\ Null \notin {line.unitPrice, line.totalPrice} => Consistent(line)

\* A line that leaves nothing to ask: everything known, nothing unusual.
Plain(line, stock, typical) ==
  /\ Backed(line, stock, typical) /\ ~line.anomaly /\ line.qty > 0
  /\ Null \notin {typical, line.unitPrice, line.totalPrice}
  /\ 100 * Distance(line.unitPrice, typical) <= 25 * typical

\* A sale or purchase of several lines is recorded without asking only if every one
\* of its lines is backed by the inventory and the model was sure; and it is so
\* recorded if every line is plain (resolution policy of confidence.ts and of the
\* prompt in contextBuilder.ts).
OnlyBackedIsCommitted ==
  LET p == intent.parsed
      lines == DOMAIN p.items
  IN (p.action \in {"sale", "purchase"} /\ p.items # <<>>) =>
       /\ (intent.resolution = "commit") =>
            (p.confidence >= 850 /\ \A i \in lines : Backed(p.items[i], intent.stock, intent.typical))
       /\ (p.confidence >= 850 /\ \A i \in lines : Plain(p.items[i], intent.stock, intent.typical)) =>
            (intent.resolution = "commit")

-----------------------------------------------------------------------------
(* The inductive invariant behind it                                       *)

IntegerLines ==
  [matched : {"listed", "unlisted", "none"}, qty : Int, unitPrice : Int, totalPrice : Int, anomaly : BOOLEAN]

IntentsTypeOK ==
  /\ intent.parsed.items \in Seq(IntegerLines) /\ intent.parsed.confidence \in Int
  /\ intent.stock \in Nat /\ intent.typical \in (Nat \ {0}) \cup {Null}

IntentsIInv ==
  /\ IntentsTypeOK
  /\ intent.resolution = resolveIntent(intent.parsed, intent.stock, intent.typical)

=============================================================================
