------------------------------ MODULE Listings ------------------------------
(* What the extraction worker makes of a page: parsers.ts finds cards, keeps *)
(* those that are whole (an id, a link, a title) up to the limit, and drops  *)
(* repeated products; index.ts decides whether that is enough and merges the *)
(* listings of both paths.  A listing is its product; its other fields are   *)
(* text that nothing here depends on.                                        *)
EXTENDS Naturals, Sequences

CONSTANTS Products, \* external ids
          MaxCards  \* bound: cards on the pages that the properties range over

ASSUME MaxCardsAssumption == MaxCards \in Nat

Card == [id : Products, whole : BOOLEAN]

\* dedupe: the loop breaks when the limit is reached.
Dedupe(items, limit) ==
  LET out[n \in 0..Len(items)] ==
        IF n = 0 THEN <<>>
        ELSE LET before == out[n - 1]
                 seen == {before[i] : i \in DOMAIN before}
             IN  IF Len(before) >= limit \/ items[n] \in seen
                   THEN before ELSE Append(before, items[n])
  IN  out[Len(items)]

\* Mutant: the limit counts cards that are skipped, too.
FirstCards(cards, limit) ==
  LET out[n \in 0..Len(cards)] ==
        IF n = 0 THEN <<>>
        ELSE LET before == out[n - 1]
             IN  IF n > limit \/ ~cards[n].whole
                   THEN before ELSE Append(before, cards[n].id)
  IN  out[Len(cards)]

\* The loops over cards stop at the limit, repeated products included.
FirstWhole(cards, limit) ==
  LET out[n \in 0..Len(cards)] ==
        IF n = 0 THEN <<>>
        ELSE LET before == out[n - 1]
             IN  IF Len(before) >= limit \/ ~cards[n].whole
                   THEN before ELSE Append(before, cards[n].id)
  IN  out[Len(cards)]

\* aliDOM goes by the first link to a product, whole or not.
AliDOM(links, limit) ==
  FirstWhole([i \in DOMAIN links |->
                [links[i] EXCEPT !.whole = @ /\ \A k \in 1..(i - 1) : links[k].id # links[i].id]],
             limit)

\* parseAmazon and parseEbay.
ParseCards(cards, limit) == Dedupe(FirstWhole(cards, limit), limit)

\* Init data first, then run parameters, then links, until there are enough.
ParseAliExpress(page, limit) ==
  LET initData == FirstWhole(page.init, limit)
      structured == Dedupe(initData \o FirstWhole(page.run, limit), limit)
  IN  CASE Len(initData) >= limit -> Dedupe(initData, limit)
        [] Len(initData) < limit /\ Len(structured) >= limit -> structured
        [] OTHER -> Dedupe(structured \o AliDOM(page.dom, limit), limit)

\* Mutant: the direct listings come first.
MergeDirectFirst(primary, secondary, limit) == Dedupe(secondary \o primary, limit)

MergeListings(primary, secondary, limit) == Dedupe(primary \o secondary, limit)

\* At least three and half of the limit, or all of it.
Enough(listings, limit) ==
  LET half == (limit + 1) \div 2
      atLeast == IF half > 3 THEN half ELSE 3
  IN  Len(listings) >= (IF limit < atLeast THEN limit ELSE atLeast)

-----------------------------------------------------------------------------
(* What is asked of the functions, for pages of up to MaxCards cards *)

Limits == 1..(MaxCards + 1)
PagesUpTo(length) == UNION {[1..n -> Card] : n \in 0..length}
ListsUpTo(length) == UNION {[1..n -> Products] : n \in 0..length}
Elements(s) == {s[i] : i \in DOMAIN s}
WholeIds(cards) == [i \in {k \in DOMAIN cards : cards[k].whole} |-> cards[i].id]
Wholes(cards) == Elements(WholeIds(cards))

\* Where x is first in a sequence, or in a part of one.
Place(all, x) == CHOOSE i \in DOMAIN all : all[i] = x /\ \A k \in DOMAIN all : k < i => all[k] # x

\* out lists different members of all, in the order of their first places.
Lists(out, all, limit) ==
  /\ Len(out) <= limit /\ Elements(out) \subseteq Elements(all)
  /\ \A i, k \in DOMAIN out : i < k => Place(all, out[i]) < Place(all, out[k])

\* Whatever the browser finds: the merged listings repeat no product and do not
\* exceed the limit; those of the browser come first, each list keeps its
\* order, and only a full answer leaves out what the direct path found.
MergesInOrder ==
  [secondary \in ListsUpTo(MaxCards) |->
     \A primary \in ListsUpTo(MaxCards), limit \in Limits :
       LET all == primary \o secondary
           out == MergeListings(primary, secondary, limit)
       IN  /\ Lists(out, all, limit)
           /\ \A x \in Elements(all) \ Elements(out) :
                Len(out) = limit /\ \A y \in Elements(out) : Place(all, y) < Place(all, x)]

\* Only whole cards are listed, and something is found where there is something.
CardsFound ==
  \A cards \in PagesUpTo(MaxCards), limit \in Limits :
    LET out == ParseCards(cards, limit)
    IN  /\ Lists(out, WholeIds(cards), limit)
        /\ out = <<>> => Wholes(cards) = {}

\* Of AliExpress, too, where a link must be whole at first sight: no product is
\* listed twice, the init data's come first and in their order.
SourcesFound ==
  \A init, run, dom \in PagesUpTo(MaxCards - 1), limit \in Limits :
    LET out == ParseAliExpress([init |-> init, run |-> run, dom |-> dom], limit)
        firsts == {dom[i].id : i \in {k \in DOMAIN dom :
                     dom[k].whole /\ \A j \in 1..(k - 1) : dom[j].id # dom[k].id}}
        all == Wholes(init) \cup Wholes(run) \cup firsts
    IN  /\ Len(out) <= limit /\ Elements(out) \subseteq all
        /\ \A i, k \in DOMAIN out : i < k =>
             /\ out[i] # out[k]
             /\ out[k] \in Wholes(init) =>
                  /\ out[i] \in Wholes(init)
                  /\ Place(WholeIds(init), out[i]) < Place(WholeIds(init), out[k])
        /\ out = <<>> => all = {}
=============================================================================
